---- MODULE Spec2Model ----
(***************************************************************************)
(* Model of the a2a-rs protocol type model and validation engine           *)
(* (src/src/lib.rs): the task lifecycle table, the streaming-event         *)
(* validators, the A2AError wire union, RequestMethod and the field        *)
(* validators.                                                             *)
(*                                                                         *)
(* A Rust String is a sequence of one-character strings; str::len() is the *)
(* UTF-8 byte length (ByteLen), not the number of characters.              *)
(***************************************************************************)
EXTENDS Integers, Sequences, FiniteSets, TLC

VARIABLES
    state,      \* Task.status.state of the task under observation
    op,         \* the library function whose result the caller holds, or "idle"
    arg,        \* its input
    res,        \* its result
    history     \* the states the task has been in, kept by SpecTask

vars == <<state, op, arg, res, history>>

\* ------------------------------------------------------------------------
\* Bounds of the model
\* ------------------------------------------------------------------------
MaxTail == 3        \* longest free suffix of a generated string
MaxPad == 1         \* how far below / above a length limit generated ids go
MaxHistory == 8     \* longest recorded sequence of task states

\* ------------------------------------------------------------------------
\* Strings
\* ------------------------------------------------------------------------
\* UTF-8 width of a character: every character of the model is ASCII but
\* "é" (U+00E9), which takes two bytes.
CharWidth(c) == IF c = "é" THEN 2 ELSE 1

\* str::len(): the sum of the UTF-8 widths (1 to 4 bytes) of the characters
ByteLen(s) ==
    LET n(w) == Cardinality({i \in 1..Len(s) : CharWidth(s[i]) = w})
    IN  n(1) + 2 * n(2) + 3 * n(3) + 4 * n(4)

starts_with(s, p) == Len(s) >= Len(p) /\ SubSeq(s, 1, Len(p)) = p

contains_char(s, c) == \E i \in 1..Len(s) : s[i] = c

\* char::is_alphanumeric over the characters of the model
is_alphanumeric(c) == c \in {"a", "b", "k", "s", "t", "x", "4", "5", "6", "7", "é"}

Repeat(c, n) == [i \in 1..n |-> c]

RECURSIVE SeqsUpTo(_, _)
SeqsUpTo(S, n) ==
    IF n = 0 THEN {<<>>}
    ELSE LET shorter == SeqsUpTo(S, n - 1)
         IN  shorter \cup {Append(t, c) : t \in {u \in shorter : Len(u) = n - 1}, c \in S}

Ok == [ok |-> TRUE, err |-> ""]
Err(msg) == [ok |-> FALSE, err |-> msg]

\* ------------------------------------------------------------------------
\* TaskState and the transition table
\* ------------------------------------------------------------------------
TaskState == {"Submitted", "Working", "InputRequired", "Completed", "Canceled",
              "Failed", "Rejected", "AuthRequired", "Unknown"}

valid_transitions_NoTerminal(from_state) ==
    CASE from_state = "Submitted" -> {"Working", "Rejected", "Canceled", "AuthRequired"}
      [] from_state = "Working" -> {"Completed", "Failed", "Canceled", "InputRequired"}
      [] from_state = "InputRequired" -> {"Working", "Canceled", "Failed"}
      [] from_state = "AuthRequired" -> {"Working", "Rejected", "Canceled"}
      [] from_state = "Completed" -> {"Working"}
      [] from_state = "Failed" -> {}
      [] from_state = "Canceled" -> {}
      [] from_state = "Rejected" -> {}
      [] from_state = "Unknown" -> {"Submitted", "Working", "Completed", "Failed",
                                    "Canceled", "Rejected", "AuthRequired", "InputRequired"}

valid_transitions_BackToUnknown(from_state) ==
    CASE from_state = "Submitted" -> {"Working", "Rejected", "Canceled", "AuthRequired"}
      [] from_state = "Working" -> {"Completed", "Failed", "Canceled", "InputRequired"}
      [] from_state = "InputRequired" -> {"Working", "Canceled", "Failed"}
      [] from_state = "AuthRequired" -> {"Working", "Rejected", "Canceled"}
      [] from_state = "Completed" -> {}
      [] from_state = "Failed" -> {"Unknown"}
      [] from_state = "Canceled" -> {}
      [] from_state = "Rejected" -> {}
      [] from_state = "Unknown" -> {"Submitted", "Working", "Completed", "Failed",
                                    "Canceled", "Rejected", "AuthRequired", "InputRequired"}

valid_transitions_SkipWorking(from_state) ==
    CASE from_state = "Submitted" -> {"Working", "Rejected", "Canceled", "AuthRequired", "Completed"}
      [] from_state = "Working" -> {"Completed", "Failed", "Canceled", "InputRequired"}
      [] from_state = "InputRequired" -> {"Working", "Canceled", "Failed"}
      [] from_state = "AuthRequired" -> {"Working", "Rejected", "Canceled"}
      [] from_state = "Completed" -> {}
      [] from_state = "Failed" -> {}
      [] from_state = "Canceled" -> {}
      [] from_state = "Rejected" -> {}
      [] from_state = "Unknown" -> {"Submitted", "Working", "Completed", "Failed",
                                    "Canceled", "Rejected", "AuthRequired", "InputRequired"}

valid_transitions_Reauthorize(from_state) ==
    CASE from_state = "Submitted" -> {"Working", "Rejected", "Canceled", "AuthRequired"}
      [] from_state = "Working" -> {"Completed", "Failed", "Canceled", "InputRequired", "AuthRequired"}
      [] from_state = "InputRequired" -> {"Working", "Canceled", "Failed"}
      [] from_state = "AuthRequired" -> {"Working", "Rejected", "Canceled"}
      [] from_state = "Completed" -> {}
      [] from_state = "Failed" -> {}
      [] from_state = "Canceled" -> {}
      [] from_state = "Rejected" -> {}
      [] from_state = "Unknown" -> {"Submitted", "Working", "Completed", "Failed",
                                    "Canceled", "Rejected", "AuthRequired", "InputRequired"}

valid_transitions_AuthDeadEnd(from_state) ==
    CASE from_state = "Submitted" -> {"Working", "Rejected", "Canceled", "AuthRequired"}
      [] from_state = "Working" -> {"Completed", "Failed", "Canceled", "InputRequired"}
      [] from_state = "InputRequired" -> {"Working", "Canceled", "Failed"}
      [] from_state = "AuthRequired" -> {"AuthRequired"}
      [] from_state = "Completed" -> {}
      [] from_state = "Failed" -> {}
      [] from_state = "Canceled" -> {}
      [] from_state = "Rejected" -> {}
      [] from_state = "Unknown" -> {"Submitted", "Working", "Completed", "Failed",
                                    "Canceled", "Rejected", "AuthRequired", "InputRequired"}

valid_transitions_AuthLoop(from_state) ==
    CASE from_state = "Submitted" -> {"Working", "Rejected", "Canceled", "AuthRequired"}
      [] from_state = "Working" -> {"Completed", "Failed", "Canceled", "InputRequired"}
      [] from_state = "InputRequired" -> {"Working", "Canceled", "Failed"}
      [] from_state = "AuthRequired" -> {"Working", "Rejected", "Canceled", "Submitted"}
      [] from_state = "Completed" -> {}
      [] from_state = "Failed" -> {}
      [] from_state = "Canceled" -> {}
      [] from_state = "Rejected" -> {}
      [] from_state = "Unknown" -> {"Submitted", "Working", "Completed", "Failed",
                                    "Canceled", "Rejected", "AuthRequired", "InputRequired"}

valid_transitions(from_state) ==
    CASE from_state = "Submitted" -> {"Working", "Rejected", "Canceled", "AuthRequired"}
      [] from_state = "Working" -> {"Completed", "Failed", "Canceled", "InputRequired"}
      [] from_state = "InputRequired" -> {"Working", "Canceled", "Failed"}
      [] from_state = "AuthRequired" -> {"Working", "Rejected", "Canceled"}
      [] from_state = "Completed" -> {}
      [] from_state = "Failed" -> {}
      [] from_state = "Canceled" -> {}
      [] from_state = "Rejected" -> {}
      [] from_state = "Unknown" -> {"Submitted", "Working", "Completed", "Failed",
                                    "Canceled", "Rejected", "AuthRequired", "InputRequired"}

validate_task_state_transition_AlwaysOk(from_state, to_state) == Ok

validate_task_state_transition(from_state, to_state) ==
    IF to_state \notin valid_transitions(from_state)
    THEN Err("Invalid task state transition")
    ELSE Ok

\* ------------------------------------------------------------------------
\* validation::* field validators
\* ------------------------------------------------------------------------
MinUrlLen == 10
MaxTaskIdLen == 255
MaxSkillIdLen == 100

HttpPrefix == <<"h", "t", "t", "p", ":", "/", "/">>
HttpsPrefix == <<"h", "t", "t", "p", "s", ":", "/", "/">>

\* &url[8..] / &url[7..]: the prefix is ASCII, so the byte offset is the
\* character offset.
without_protocol(url) ==
    IF starts_with(url, HttpsPrefix)
    THEN SubSeq(url, 9, Len(url))
    ELSE SubSeq(url, 8, Len(url))

validate_url_NoSpaceCheck(url) ==
    IF url = <<>> THEN Err("URL cannot be empty")
    ELSE IF ~starts_with(url, HttpPrefix) /\ ~starts_with(url, HttpsPrefix)
    THEN Err("URL must start with http:// or https://")
    ELSE IF ByteLen(url) < MinUrlLen THEN Err("URL appears to be too short")
    ELSE IF without_protocol(url) = <<>> THEN Err("URL must contain a domain")
    ELSE Ok

validate_url_DomainBeforeLength(url) ==
    IF url = <<>> THEN Err("URL cannot be empty")
    ELSE IF ~starts_with(url, HttpPrefix) /\ ~starts_with(url, HttpsPrefix)
    THEN Err("URL must start with http:// or https://")
    ELSE IF without_protocol(url) = <<>> THEN Err("URL must contain a domain")
    ELSE IF ByteLen(url) < MinUrlLen THEN Err("URL appears to be too short")
    ELSE IF contains_char(url, " ") THEN Err("URL cannot contain spaces")
    ELSE Ok

validate_url(url) ==
    IF url = <<>> THEN Err("URL cannot be empty")
    ELSE IF ~starts_with(url, HttpPrefix) /\ ~starts_with(url, HttpsPrefix)
    THEN Err("URL must start with http:// or https://")
    ELSE IF ByteLen(url) < MinUrlLen THEN Err("URL appears to be too short")
    ELSE IF without_protocol(url) = <<>> THEN Err("URL must contain a domain")
    ELSE IF contains_char(url, " ") THEN Err("URL cannot contain spaces")
    ELSE Ok

validate_task_id(task_id) ==
    IF task_id = <<>> THEN Err("Task ID cannot be empty")
    ELSE IF ByteLen(task_id) > MaxTaskIdLen THEN Err("Task ID is too long (max 255 characters)")
    ELSE IF \E i \in 1..Len(task_id) :
                ~(is_alphanumeric(task_id[i]) \/ task_id[i] = "-" \/ task_id[i] = "_")
    THEN Err("Task ID can only contain alphanumeric characters, hyphens, and underscores")
    ELSE Ok

validate_skill_id_NoHyphen(skill_id) ==
    IF skill_id = <<>> THEN Err("Skill ID cannot be empty")
    ELSE IF ByteLen(skill_id) > MaxSkillIdLen THEN Err("Skill ID is too long (max 100 characters)")
    ELSE IF \E i \in 1..Len(skill_id) :
                ~(is_alphanumeric(skill_id[i]) \/ skill_id[i] = "_" \/ skill_id[i] = ".")
    THEN Err("Skill ID can only contain alphanumeric characters, hyphens, underscores, and dots")
    ELSE Ok

validate_skill_id(skill_id) ==
    IF skill_id = <<>> THEN Err("Skill ID cannot be empty")
    ELSE IF ByteLen(skill_id) > MaxSkillIdLen THEN Err("Skill ID is too long (max 100 characters)")
    ELSE IF \E i \in 1..Len(skill_id) :
                ~(is_alphanumeric(skill_id[i]) \/ skill_id[i] = "-" \/ skill_id[i] = "_"
                  \/ skill_id[i] = ".")
    THEN Err("Skill ID can only contain alphanumeric characters, hyphens, underscores, and dots")
    ELSE Ok

\* Inputs of the validators
UrlAlphabet == {"x", ".", " ", "é"}
UrlPrefixes == {<<>>, HttpPrefix, HttpsPrefix, <<"f", "t", "p", ":", "/", "/">>,
                <<"h", "t", "t", "p", ":", "/">>}
ExampleUrl == HttpsPrefix \o <<"e", "x", "a", "m", "p", "l", "e", ".", "c", "o", "m", "/", "a", "p", "i">>
UrlInputs == {p \o t : p \in UrlPrefixes, t \in SeqsUpTo(UrlAlphabet, MaxTail)}
                 \cup {ExampleUrl, <<"f", "t", "p", ":", "/", "/", "x">>}

IdAlphabet == {"a", "-", "_", ".", " ", "é"}
IdPadLens == {0} \cup UNION {(L - MaxPad)..(L + MaxPad) : L \in {MaxSkillIdLen, MaxTaskIdLen}}
IdInputs == {Repeat(c, n) \o t : c \in {"a", "é"}, n \in IdPadLens,
                                 t \in SeqsUpTo(IdAlphabet, MaxTail - 1)}

\* ------------------------------------------------------------------------
\* Streaming events
\* ------------------------------------------------------------------------
\* Option<T>: None is <<>>, Some(v) is <<v>>
None == <<>>
Some(v) == <<v>>

TaskStatusUpdateEvent_validate_FinalUnchecked(e) ==
    IF e.kind # "status-update"
    THEN Err("TaskStatusUpdateEvent kind must be 'status-update'")
    ELSE IF ~validate_task_id(e.task_id).ok THEN validate_task_id(e.task_id)
    ELSE IF e.context_id = <<>> THEN Err("Context ID cannot be empty")
    ELSE Ok

TaskStatusUpdateEvent_validate(e) ==
    IF e.kind # "status-update"
    THEN Err("TaskStatusUpdateEvent kind must be 'status-update'")
    ELSE IF ~validate_task_id(e.task_id).ok THEN validate_task_id(e.task_id)
    ELSE IF e.context_id = <<>> THEN Err("Context ID cannot be empty")
    ELSE IF e.final_event
            /\ e.status.state \notin {"Completed", "Failed", "Canceled", "Rejected"}
    THEN Err("Final status update events must have terminal task states")
    ELSE Ok

is_terminal_state_NoRejected(e) == e.status.state \in {"Completed", "Failed", "Canceled"}

is_terminal_state(e) == e.status.state \in {"Completed", "Failed", "Canceled", "Rejected"}

TaskArtifactUpdateEvent_validate_EitherFlag(e) ==
    IF e.kind # "artifact-update"
    THEN Err("TaskArtifactUpdateEvent kind must be 'artifact-update'")
    ELSE IF ~validate_task_id(e.task_id).ok THEN validate_task_id(e.task_id)
    ELSE IF e.context_id = <<>> THEN Err("Context ID cannot be empty")
    ELSE IF e.artifact.parts = <<>> THEN Err("Artifact must contain at least one part")
    ELSE IF e.append # None /\ e.last_chunk # None /\ (e.append[1] \/ e.last_chunk[1])
    THEN Err("Artifact cannot both append and be the last chunk")
    ELSE Ok

TaskArtifactUpdateEvent_validate(e) ==
    IF e.kind # "artifact-update"
    THEN Err("TaskArtifactUpdateEvent kind must be 'artifact-update'")
    ELSE IF ~validate_task_id(e.task_id).ok THEN validate_task_id(e.task_id)
    ELSE IF e.context_id = <<>> THEN Err("Context ID cannot be empty")
    ELSE IF e.artifact.parts = <<>> THEN Err("Artifact must contain at least one part")
    ELSE IF e.append # None /\ e.last_chunk # None /\ e.append[1] /\ e.last_chunk[1]
    THEN Err("Artifact cannot both append and be the last chunk")
    ELSE Ok

\* Inputs of the event validators
EventKinds == {"status-update", "artifact-update", "task"}
EventTaskIds == {<<>>, <<"t", "a", "s", "k", "-", "4", "5", "6">>, <<"a", " ", "b">>,
                 Repeat("a", MaxTaskIdLen), Repeat("a", MaxTaskIdLen + 1)}
ContextIds == {<<>>, <<"c", "t", "x">>}
PartLists == {<<>>, <<"text">>, <<"text", "data">>}
OptionBool == {None, Some(TRUE), Some(FALSE)}

StatusEvents ==
    [kind : EventKinds, task_id : EventTaskIds, context_id : ContextIds,
     status : [state : TaskState], final_event : BOOLEAN]

ArtifactEvents ==
    [kind : EventKinds, task_id : EventTaskIds, context_id : ContextIds,
     artifact : [parts : PartLists], append : OptionBool, last_chunk : OptionBool]

\* ------------------------------------------------------------------------
\* JSON values (serde_json::Value)
\* ------------------------------------------------------------------------
JNull == [t |-> "null", n |-> 0, s |-> ""]
JBool(b) == [t |-> "bool", n |-> IF b THEN 1 ELSE 0, s |-> ""]
JInt(n) == [t |-> "int", n |-> n, s |-> ""]
JFloat(s) == [t |-> "float", n |-> 0, s |-> s]      \* a number with a fraction
JStr(s) == [t |-> "string", n |-> 0, s |-> s]
JArray == [t |-> "array", n |-> 0, s |-> ""]         \* some array, not an object

\* A JSON object as far as the error decoder reads it: the three fields it
\* looks at, each absent (None) or present (Some(value)); other fields are
\* ignored by the derived decoders.
JObject(code, message, data) ==
    [t |-> "object", code |-> code, message |-> message, data |-> data]

\* Value::as_i64: Some for an integer number, None for anything else
as_i64(v) == IF v.t = "int" THEN Some(v.n) ELSE None

\* ------------------------------------------------------------------------
\* A2AError
\* ------------------------------------------------------------------------
ErrorKinds == {"JSONParse", "InvalidRequest", "MethodNotFound", "InvalidParams",
               "Internal", "TaskNotFound", "TaskNotCancelable",
               "PushNotificationNotSupported", "UnsupportedOperation",
               "ContentTypeNotSupported", "InvalidAgentResponse"}

\* The match of the decoder: the kind selected by a code, "" for no arm
kind_of_code_Defaulting(code) ==
    CASE code = -32700 -> "JSONParse"
      [] code = -32600 -> "InvalidRequest"
      [] code = -32601 -> "MethodNotFound"
      [] code = -32602 -> "InvalidParams"
      [] code = -32001 -> "TaskNotFound"
      [] code = -32002 -> "TaskNotCancelable"
      [] code = -32003 -> "PushNotificationNotSupported"
      [] code = -32004 -> "UnsupportedOperation"
      [] code = -32005 -> "ContentTypeNotSupported"
      [] code = -32006 -> "InvalidAgentResponse"
      [] OTHER -> "Internal"

kind_of_code(code) ==
    CASE code = -32700 -> "JSONParse"
      [] code = -32600 -> "InvalidRequest"
      [] code = -32601 -> "MethodNotFound"
      [] code = -32602 -> "InvalidParams"
      [] code = -32603 -> "Internal"
      [] code = -32001 -> "TaskNotFound"
      [] code = -32002 -> "TaskNotCancelable"
      [] code = -32003 -> "PushNotificationNotSupported"
      [] code = -32004 -> "UnsupportedOperation"
      [] code = -32005 -> "ContentTypeNotSupported"
      [] code = -32006 -> "InvalidAgentResponse"
      [] OTHER -> ""

\* An error value: the variant and the three public fields of its struct
A2AError(kind, code, message, data) ==
    [kind |-> kind, code |-> code, message |-> message, data |-> data]

\* derive(Serialize), untagged: the fields of the inner struct as they are;
\* data is skipped when it is None.
A2AError_serialize(e) ==
    JObject(Some(JInt(e.code)), Some(JStr(e.message)),
            IF e.data = None THEN None ELSE Some(e.data[1]))

DecodeOk(v) == [ok |-> TRUE, err |-> "", val |-> v]
DecodeErr(msg) == [ok |-> FALSE, err |-> msg]

\* Option<Value>::deserialize of a field: a missing field and a JSON null
\* both give None.
deserialize_option(field) ==
    IF field = None \/ field[1].t = "null" THEN None ELSE Some(field[1])

\* derive(Deserialize) of the eleven error structs {code: i32, message:
\* String, data: Option<Value>}, wrapped in the variant `kind`.
error_struct_deserialize(kind, value) ==
    IF value.code = None THEN DecodeErr("missing field code")
    ELSE IF value.code[1].t # "int" THEN DecodeErr("invalid type: expected i32")
    ELSE IF value.message = None THEN DecodeErr("missing field message")
    ELSE IF value.message[1].t # "string" THEN DecodeErr("invalid type: expected a string")
    ELSE DecodeOk(A2AError(kind, value.code[1].n, value.message[1].s,
                           deserialize_option(value.data)))

A2AError_deserialize(value) ==
    LET code == IF value.t = "object" /\ value.code # None
                THEN as_i64(value.code[1])
                ELSE None
    IN  IF code = None THEN DecodeErr("missing field code")
        ELSE IF kind_of_code(code[1]) = "" THEN DecodeErr("Unknown error code")
        ELSE error_struct_deserialize(kind_of_code(code[1]), value)

\* Inputs of the error codec
FixedCodes == {-32700, -32600, -32601, -32602, -32603,
               -32001, -32002, -32003, -32004, -32005, -32006}
OtherCodes == {0, -32000, -32007, 32700}
Messages == {"", "Task not found"}
DataValues == {None, Some(JNull), Some(JStr("detail")), Some(JInt(7))}
ErrorValues ==
    {A2AError(k, c, m, d) : k \in ErrorKinds, c \in FixedCodes \cup OtherCodes,
                            m \in Messages, d \in DataValues}
WireCodes == {None, Some(JNull), Some(JStr("-32700")), Some(JFloat("-32700.5")),
              Some(JBool(TRUE))}
                 \cup {Some(JInt(c)) : c \in FixedCodes \cup OtherCodes}
WireMessages == {None, Some(JStr("Task not found")), Some(JInt(1))}
WireValues ==
    {JObject(c, m, d) : c \in WireCodes, m \in WireMessages, d \in DataValues}
        \cup {JNull, JArray, JStr("error"), JInt(-32700)}

\* ------------------------------------------------------------------------
\* RequestMethod
\* ------------------------------------------------------------------------
RequestMethod == {"MessageSend", "MessageStream", "TasksGet", "TasksCancel",
                  "TasksPushNotificationConfigSet", "TasksPushNotificationConfigGet",
                  "TasksPushNotificationConfigList", "TasksPushNotificationConfigDelete",
                  "TasksResubscribe"}

\* derive(Serialize) with the per-variant rename attributes
RequestMethod_serialize_Legacy(m) ==
    CASE m = "MessageSend" -> "sendMessage"
      [] m = "MessageStream" -> "message/stream"
      [] m = "TasksGet" -> "tasks/get"
      [] m = "TasksCancel" -> "tasks/cancel"
      [] m = "TasksPushNotificationConfigSet" -> "tasks/pushNotificationConfig/set"
      [] m = "TasksPushNotificationConfigGet" -> "tasks/pushNotificationConfig/get"
      [] m = "TasksPushNotificationConfigList" -> "tasks/pushNotificationConfig/list"
      [] m = "TasksPushNotificationConfigDelete" -> "tasks/pushNotificationConfig/delete"
      [] m = "TasksResubscribe" -> "tasks/resubscribe"

RequestMethod_serialize(m) ==
    CASE m = "MessageSend" -> "message/send"
      [] m = "MessageStream" -> "message/stream"
      [] m = "TasksGet" -> "tasks/get"
      [] m = "TasksCancel" -> "tasks/cancel"
      [] m = "TasksPushNotificationConfigSet" -> "tasks/pushNotificationConfig/set"
      [] m = "TasksPushNotificationConfigGet" -> "tasks/pushNotificationConfig/get"
      [] m = "TasksPushNotificationConfigList" -> "tasks/pushNotificationConfig/list"
      [] m = "TasksPushNotificationConfigDelete" -> "tasks/pushNotificationConfig/delete"
      [] m = "TasksResubscribe" -> "tasks/resubscribe"

as_str(m) ==
    CASE m = "MessageSend" -> "message/send"
      [] m = "MessageStream" -> "message/stream"
      [] m = "TasksGet" -> "tasks/get"
      [] m = "TasksCancel" -> "tasks/cancel"
      [] m = "TasksPushNotificationConfigSet" -> "tasks/pushNotificationConfig/set"
      [] m = "TasksPushNotificationConfigGet" -> "tasks/pushNotificationConfig/get"
      [] m = "TasksPushNotificationConfigList" -> "tasks/pushNotificationConfig/list"
      [] m = "TasksPushNotificationConfigDelete" -> "tasks/pushNotificationConfig/delete"
      [] m = "TasksResubscribe" -> "tasks/resubscribe"

\* RequestMethod::from_str: Some(method) or None
from_str(s) ==
    CASE s = "message/send" -> Some("MessageSend")
      [] s = "message/stream" -> Some("MessageStream")
      [] s = "tasks/get" -> Some("TasksGet")
      [] s = "tasks/cancel" -> Some("TasksCancel")
      [] s = "tasks/pushNotificationConfig/set" -> Some("TasksPushNotificationConfigSet")
      [] s = "tasks/pushNotificationConfig/get" -> Some("TasksPushNotificationConfigGet")
      [] s = "tasks/pushNotificationConfig/list" -> Some("TasksPushNotificationConfigList")
      [] s = "tasks/pushNotificationConfig/delete" -> Some("TasksPushNotificationConfigDelete")
      [] s = "tasks/resubscribe" -> Some("TasksResubscribe")
      [] s = "sendMessage" -> Some("MessageSend")
      [] s = "getTask" -> Some("TasksGet")
      [] s = "cancelTask" -> Some("TasksCancel")
      [] OTHER -> None

\* impl Deserialize for RequestMethod: a JSON string that from_str knows
RequestMethod_deserialize(v) ==
    IF v.t # "string" THEN DecodeErr("invalid type: expected a string")
    ELSE IF from_str(v.s) = None THEN DecodeErr("unknown request method")
    ELSE DecodeOk(from_str(v.s)[1])

CanonicalMethods == {"message/send", "message/stream", "tasks/get", "tasks/cancel",
                     "tasks/pushNotificationConfig/set", "tasks/pushNotificationConfig/get",
                     "tasks/pushNotificationConfig/list",
                     "tasks/pushNotificationConfig/delete", "tasks/resubscribe"}
LegacyMethods == {"sendMessage", "getTask", "cancelTask"}
OtherMethods == {"", "MessageSend", "message_send", "Message/Send", "message/send ",
                 "tasks/send", "tasks/pushNotificationConfig", "resubscribeTask",
                 "streamMessage", "tasks/pushNotificationConfig/Set"}
MethodWires == {JStr(s) : s \in CanonicalMethods \cup LegacyMethods \cup OtherMethods}
                   \cup {JNull, JInt(1)}

\* ------------------------------------------------------------------------
\* More string operations
\* ------------------------------------------------------------------------
\* str::contains(&str)
contains_str(s, sub) ==
    \E i \in 1..(Len(s) - Len(sub) + 1) : SubSeq(s, i, i + Len(sub) - 1) = sub


\* str::to_lowercase over the characters of the model (ASCII letters map to
\* lower case, every other character of the model is unchanged)
to_lowercase(s) ==
    LET UpperLetters == <<"A", "B", "C", "D", "E", "F", "G", "H", "I", "J", "K", "L", "M", "N", "O", "P", "Q", "R", "S", "T", "U", "V", "W", "X", "Y", "Z">>
        LowerLetters == <<"a", "b", "c", "d", "e", "f", "g", "h", "i", "j", "k", "l", "m", "n", "o", "p", "q", "r", "s", "t", "u", "v", "w", "x", "y", "z">>
    IN
    [i \in 1..Len(s) |->
        IF \E k \in 1..26 : UpperLetters[k] = s[i]
        THEN LowerLetters[CHOOSE k \in 1..26 : UpperLetters[k] = s[i]]
        ELSE s[i]]

\* ------------------------------------------------------------------------
\* AgentExtension
\* ------------------------------------------------------------------------
MaxExtensionDescLen == 1000

\* The params object as far as the validators read it: the six keys they
\* look up, each absent (None) or present (Some(value)).
JParams(clientId, scopes, redirectUri, url, secret, events) ==
    [t |-> "object", clientId |-> clientId, scopes |-> scopes,
     redirectUri |-> redirectUri, url |-> url, secret |-> secret, events |-> events]

\* A JSON string inside params, holding its characters
JText(chars) == [t |-> "string", chars |-> chars]

AgentExtension_validate_uri(e) ==
    IF e.uri = <<>> THEN Err("Extension URI cannot be empty")
    ELSE IF ~starts_with(e.uri, HttpPrefix) /\ ~starts_with(e.uri, HttpsPrefix)
    THEN Err("Extension URI must be a valid HTTP or HTTPS URL")
    ELSE IF ByteLen(e.uri) < 10 THEN Err("Extension URI appears to be too short")
    ELSE Ok

validate_auth_extension_params(obj) ==
    IF obj.clientId # None
       /\ (obj.clientId[1].t # "string" \/ obj.clientId[1].chars = <<>>)
    THEN Err("Auth extension clientId must be a non-empty string")
    ELSE IF obj.scopes # None /\ obj.scopes[1].t # "array"
    THEN Err("Auth extension scopes must be an array")
    ELSE IF obj.redirectUri # None /\ obj.redirectUri[1].t # "string"
    THEN Err("Auth extension redirectUri must be a string")
    ELSE IF obj.redirectUri # None
            /\ ~starts_with(obj.redirectUri[1].chars, HttpPrefix)
            /\ ~starts_with(obj.redirectUri[1].chars, HttpsPrefix)
    THEN Err("Auth extension redirectUri must be a valid URL")
    ELSE Ok

validate_webhook_extension_params(obj) ==
    IF obj.url # None /\ (obj.url[1].t # "string" \/ obj.url[1].chars = <<>>)
    THEN Err("Webhook extension url must be a non-empty string")
    ELSE IF obj.url # None
            /\ ~starts_with(obj.url[1].chars, HttpPrefix)
            /\ ~starts_with(obj.url[1].chars, HttpsPrefix)
    THEN Err("Webhook extension url must be a valid HTTP or HTTPS URL")
    ELSE IF obj.secret # None /\ obj.secret[1].t # "string"
    THEN Err("Webhook extension secret must be a string")
    ELSE IF obj.events # None /\ obj.events[1].t # "array"
    THEN Err("Webhook extension events must be an array")
    ELSE Ok

AgentExtension_validate_params_WebhookFirst(e) ==
    IF e.params = None THEN Ok
    ELSE IF e.params[1].t # "object" THEN Err("Extension params must be a JSON object")
    ELSE IF contains_str(e.uri, <<"w", "e", "b", "h", "o", "o", "k">>) \/ contains_str(e.uri, <<"n", "o", "t", "i", "f", "i", "c", "a", "t", "i", "o", "n">>)
    THEN validate_webhook_extension_params(e.params[1])
    ELSE IF contains_str(e.uri, <<"o", "a", "u", "t", "h">>) \/ contains_str(e.uri, <<"a", "u", "t", "h">>)
    THEN validate_auth_extension_params(e.params[1])
    ELSE Ok

AgentExtension_validate_params(e) ==
    IF e.params = None THEN Ok
    ELSE IF e.params[1].t # "object" THEN Err("Extension params must be a JSON object")
    ELSE IF contains_str(e.uri, <<"o", "a", "u", "t", "h">>) \/ contains_str(e.uri, <<"a", "u", "t", "h">>)
    THEN validate_auth_extension_params(e.params[1])
    ELSE IF contains_str(e.uri, <<"w", "e", "b", "h", "o", "o", "k">>) \/ contains_str(e.uri, <<"n", "o", "t", "i", "f", "i", "c", "a", "t", "i", "o", "n">>)
    THEN validate_webhook_extension_params(e.params[1])
    ELSE Ok

AgentExtension_validate(e) ==
    IF ~AgentExtension_validate_uri(e).ok THEN AgentExtension_validate_uri(e)
    ELSE IF ~AgentExtension_validate_params(e).ok THEN AgentExtension_validate_params(e)
    ELSE IF e.description # None /\ ByteLen(e.description[1]) > MaxExtensionDescLen
    THEN Err("Extension description is too long (max 1000 characters)")
    ELSE Ok

\* Inputs of the extension validator
ExtensionParams ==
    LET EmptyParams == JParams(None, None, None, None, None, None)
    IN
    {None, Some(JNull), Some(JArray), Some(JText(<<"p", "a", "r", "a", "m", "s">>)), Some(EmptyParams)}
        \cup {Some([EmptyParams EXCEPT !.clientId = Some(v)]) :
                v \in {JText(<<>>), JText(<<"c", "l", "i", "e", "n", "t">>), JInt(1)}}
        \cup {Some([EmptyParams EXCEPT !.scopes = Some(v)]) : v \in {JArray, JText(<<"r", "e", "a", "d">>)}}
        \cup {Some([EmptyParams EXCEPT !.redirectUri = Some(v)]) :
                v \in {JText(<<"h", "t", "t", "p", "s", ":", "/", "/", "c", "b", ".", "e", "x", "a", "m", "p", "l", "e", ".", "c", "o", "m">>), JText(<<"c", "b">>), JInt(1)}}
        \cup {Some([EmptyParams EXCEPT !.url = Some(v)]) :
                v \in {JText(<<>>), JText(<<"h", "t", "t", "p", "s", ":", "/", "/", "h", "o", "o", "k", ".", "e", "x", "a", "m", "p", "l", "e", ".", "c", "o", "m">>),
                       JText(<<"f", "t", "p", ":", "/", "/", "h", "o", "o", "k">>), JInt(1)}}
        \cup {Some([EmptyParams EXCEPT !.secret = Some(v)]) : v \in {JText(<<"s", "3", "c", "r", "e", "t">>), JInt(1)}}
        \cup {Some([EmptyParams EXCEPT !.events = Some(v)]) : v \in {JArray, JText(<<"a", "l", "l">>)}}
        \cup {Some(JParams(Some(JInt(1)), None, None, Some(JInt(1)), None, None))}
AgentExtensions ==
    LET ExtensionUris ==
            {<<>>, <<"i", "n", "v", "a", "l", "i", "d", "-", "u", "r", "l">>, <<"h", "t", "t", "p", ":", "/", "/", "x">>, <<"f", "t", "p", ":", "/", "/", "e", "x", "a", "m", "p", "l", "e", ".", "c", "o", "m", "/", "e", "x", "t">>,
             <<"h", "t", "t", "p", "s", ":", "/", "/", "e", "x", "a", "m", "p", "l", "e", ".", "c", "o", "m", "/", "o", "a", "u", "t", "h", "-", "e", "x", "t", "e", "n", "s", "i", "o", "n">>, <<"h", "t", "t", "p", "s", ":", "/", "/", "e", "x", "a", "m", "p", "l", "e", ".", "c", "o", "m", "/", "a", "u", "t", "h">>,
             <<"h", "t", "t", "p", "s", ":", "/", "/", "e", "x", "a", "m", "p", "l", "e", ".", "c", "o", "m", "/", "w", "e", "b", "h", "o", "o", "k">>, <<"h", "t", "t", "p", ":", "/", "/", "e", "x", "a", "m", "p", "l", "e", ".", "c", "o", "m", "/", "n", "o", "t", "i", "f", "i", "c", "a", "t", "i", "o", "n">>,
             <<"h", "t", "t", "p", "s", ":", "/", "/", "e", "x", "a", "m", "p", "l", "e", ".", "c", "o", "m", "/", "a", "u", "t", "h", "/", "w", "e", "b", "h", "o", "o", "k">>, <<"h", "t", "t", "p", "s", ":", "/", "/", "e", "x", "a", "m", "p", "l", "e", ".", "c", "o", "m", "/", "e", "x", "t">>,
             <<"h", "t", "t", "p", "s", ":", "/", "/", "e", "x", "a", "m", "p", "l", "e", ".", "c", "o", "m", "/", "m", "y", " ", "e", "x", "t">>, <<"h", "t", "t", "p", ":", "/", "/", "a", " ", "b">>}
        ExtensionDescriptions ==
            {None, Some(<<"A", "n", " ", "e", "x", "t", "e", "n", "s", "i", "o", "n">>), Some(Repeat("a", MaxExtensionDescLen)),
             Some(Repeat("a", MaxExtensionDescLen + 1))}
    IN
    [uri : ExtensionUris, description : ExtensionDescriptions, params : ExtensionParams]

\* ------------------------------------------------------------------------
\* Security schemes
\* ------------------------------------------------------------------------
MaxSchemeDescLen == 500

ApiKeyLocation == {"Header", "Query", "Cookie"}

ApiKeySecurityScheme_validate_CaseSensitive(k) ==
    IF k.type_ # "apiKey" THEN Err("API Key security scheme type must be 'apiKey'")
    ELSE IF k.name = <<>> THEN Err("API Key parameter name cannot be empty")
    ELSE IF k.in_ = "Header" /\ contains_char(k.name, " ")
    THEN Err("Header names cannot contain spaces")
    ELSE IF k.in_ = "Header" /\ k.name = <<"a", "u", "t", "h", "o", "r", "i", "z", "a", "t", "i", "o", "n">>
    THEN Err("Use HTTP security scheme for Authorization header")
    ELSE IF k.in_ = "Query"
            /\ (contains_char(k.name, " ") \/ contains_char(k.name, "&")
                \/ contains_char(k.name, "="))
    THEN Err("Query parameter names cannot contain spaces, &, or =")
    ELSE IF k.in_ = "Cookie"
            /\ (contains_char(k.name, " ") \/ contains_char(k.name, ";")
                \/ contains_char(k.name, "="))
    THEN Err("Cookie names cannot contain spaces, ;, or =")
    ELSE IF k.description # None /\ ByteLen(k.description[1]) > MaxSchemeDescLen
    THEN Err("Security scheme description is too long (max 500 characters)")
    ELSE Ok

ApiKeySecurityScheme_validate(k) ==
    IF k.type_ # "apiKey" THEN Err("API Key security scheme type must be 'apiKey'")
    ELSE IF k.name = <<>> THEN Err("API Key parameter name cannot be empty")
    ELSE IF k.in_ = "Header" /\ contains_char(k.name, " ")
    THEN Err("Header names cannot contain spaces")
    ELSE IF k.in_ = "Header" /\ to_lowercase(k.name) = <<"a", "u", "t", "h", "o", "r", "i", "z", "a", "t", "i", "o", "n">>
    THEN Err("Use HTTP security scheme for Authorization header")
    ELSE IF k.in_ = "Query"
            /\ (contains_char(k.name, " ") \/ contains_char(k.name, "&")
                \/ contains_char(k.name, "="))
    THEN Err("Query parameter names cannot contain spaces, &, or =")
    ELSE IF k.in_ = "Cookie"
            /\ (contains_char(k.name, " ") \/ contains_char(k.name, ";")
                \/ contains_char(k.name, "="))
    THEN Err("Cookie names cannot contain spaces, ;, or =")
    ELSE IF k.description # None /\ ByteLen(k.description[1]) > MaxSchemeDescLen
    THEN Err("Security scheme description is too long (max 500 characters)")
    ELSE Ok

\* Inputs of the security scheme validators
SchemeDescriptions ==
    {None, Some(Repeat("a", MaxSchemeDescLen)), Some(Repeat("a", MaxSchemeDescLen + 1)),
     Some(Repeat("é", MaxSchemeDescLen \div 2)),
     Some(Repeat("é", MaxSchemeDescLen \div 2 + 1))}
ApiKeySchemes ==
    LET ApiKeyNames ==
            {<<>>, <<"X", "-", "A", "P", "I", "-", "K", "e", "y">>, <<"A", "u", "t", "h", "o", "r", "i", "z", "a", "t", "i", "o", "n">>, <<"a", "u", "t", "h", "o", "r", "i", "z", "a", "t", "i", "o", "n">>, <<"A", "U", "T", "H", "O", "R", "I", "Z", "A", "T", "I", "O", "N">>,
             <<"a", "u", "t", "h", "o", "r", "i", "z", "a", "t", "i", "o", "n", "s">>, <<"a", "p", "i", " ", "k", "e", "y">>, <<"a", "p", "i", "&", "k", "e", "y">>, <<"a", "p", "i", "=", "k", "e", "y">>, <<"a", "p", "i", ";", "k", "e", "y">>, <<"a", "p", "i", "_", "k", "e", "y">>}
    IN
    [type_ : {"apiKey", "apikey", "http"}, in_ : ApiKeyLocation, name : ApiKeyNames,
     description : SchemeDescriptions]

valid_schemes == {<<"b", "a", "s", "i", "c">>, <<"b", "e", "a", "r", "e", "r">>, <<"d", "i", "g", "e", "s", "t">>, <<"n", "e", "g", "o", "t", "i", "a", "t", "e">>, <<"n", "t", "l", "m">>}

HttpSecurityScheme_validate_AnyBearerFormat(h) ==
    IF h.type_ # "http" THEN Err("HTTP security scheme type must be 'http'")
    ELSE IF h.scheme = <<>> THEN Err("HTTP scheme name cannot be empty")
    ELSE IF to_lowercase(h.scheme) \notin valid_schemes
            /\ ~starts_with(to_lowercase(h.scheme), <<"x", "-">>)
    THEN Err("Unknown HTTP authentication scheme")
    ELSE IF h.bearer_format # None /\ h.bearer_format[1] = <<>>
    THEN Err("Bearer format cannot be empty if specified")
    ELSE IF h.description # None /\ ByteLen(h.description[1]) > MaxSchemeDescLen
    THEN Err("Security scheme description is too long (max 500 characters)")
    ELSE Ok

\* The message of the unknown-scheme error ends with the scheme name in the
\* code; the model keeps the fixed part of it.
HttpSecurityScheme_validate(h) ==
    IF h.type_ # "http" THEN Err("HTTP security scheme type must be 'http'")
    ELSE IF h.scheme = <<>> THEN Err("HTTP scheme name cannot be empty")
    ELSE IF to_lowercase(h.scheme) \notin valid_schemes
            /\ ~starts_with(to_lowercase(h.scheme), <<"x", "-">>)
    THEN Err("Unknown HTTP authentication scheme")
    ELSE IF h.bearer_format # None /\ to_lowercase(h.scheme) # <<"b", "e", "a", "r", "e", "r">>
    THEN Err("Bearer format can only be specified for bearer scheme")
    ELSE IF h.bearer_format # None /\ h.bearer_format[1] = <<>>
    THEN Err("Bearer format cannot be empty if specified")
    ELSE IF h.description # None /\ ByteLen(h.description[1]) > MaxSchemeDescLen
    THEN Err("Security scheme description is too long (max 500 characters)")
    ELSE Ok

HttpSchemes ==
    LET HttpSchemeNames ==
            {<<>>, <<"b", "a", "s", "i", "c">>, <<"B", "a", "s", "i", "c">>, <<"b", "e", "a", "r", "e", "r">>, <<"B", "e", "a", "r", "e", "r">>, <<"B", "E", "A", "R", "E", "R">>, <<"d", "i", "g", "e", "s", "t">>,
             <<"n", "e", "g", "o", "t", "i", "a", "t", "e">>, <<"N", "T", "L", "M">>, <<"x", "-", "c", "u", "s", "t", "o", "m">>, <<"X", "-", "C", "u", "s", "t", "o", "m">>, <<"o", "a", "u", "t", "h">>, <<"x", "b", "a", "s", "i", "c">>,
             <<"b", "e", "a", "r", "e", "r", " ">>}
        BearerFormats == {None, Some(<<>>), Some(<<"J", "W", "T">>)}
    IN
    [type_ : {"http", "https"}, scheme : HttpSchemeNames, bearer_format : BearerFormats,
     description : {None, Some(Repeat("a", MaxSchemeDescLen + 1))}]

\* ------------------------------------------------------------------------
\* OAuth2 flows
\* ------------------------------------------------------------------------
\* A scope map is the set of its entries [name, desc], with distinct names.
\* The validators visit the entries in the map's iteration order, which is
\* not determined, and return at the first entry that breaks a rule: each
\* validator yields the set of results the call can return. The messages of
\* the URL errors end with the message of validate_url in the code; the model
\* keeps the fixed part.
AuthorizationCodeOAuthFlow_validate(f) ==
    IF ~validate_url(f.authorization_url).ok THEN {Err("Invalid authorization URL")}
    ELSE IF ~validate_url(f.token_url).ok THEN {Err("Invalid token URL")}
    ELSE IF f.refresh_url # None /\ ~validate_url(f.refresh_url[1]).ok
    THEN {Err("Invalid refresh URL")}
    ELSE IF f.scopes = {} THEN {Err("OAuth2 flow must define at least one scope")}
    ELSE LET errs == {Err(IF sc.name = <<>> THEN "OAuth2 scope name cannot be empty"
                          ELSE IF sc.desc = <<>>
                          THEN "OAuth2 scope description cannot be empty"
                          ELSE "OAuth2 scope names cannot contain spaces") :
                        sc \in {x \in f.scopes : \/ x.name = <<>>
                                                 \/ x.desc = <<>>
                                                 \/ contains_char(x.name, " ")}}
         IN IF errs = {} THEN {Ok} ELSE errs

ClientCredentialsOAuthFlow_validate(f) ==
    IF ~validate_url(f.token_url).ok THEN {Err("Invalid token URL")}
    ELSE IF f.refresh_url # None /\ ~validate_url(f.refresh_url[1]).ok
    THEN {Err("Invalid refresh URL")}
    ELSE IF f.scopes = {} THEN {Err("OAuth2 flow must define at least one scope")}
    ELSE LET errs == {Err(IF sc.name = <<>> THEN "OAuth2 scope name cannot be empty"
                          ELSE IF sc.desc = <<>>
                          THEN "OAuth2 scope description cannot be empty"
                          ELSE "OAuth2 scope names cannot contain spaces") :
                        sc \in {x \in f.scopes : \/ x.name = <<>>
                                                 \/ x.desc = <<>>
                                                 \/ contains_char(x.name, " ")}}
         IN IF errs = {} THEN {Ok} ELSE errs

ImplicitOAuthFlow_validate_FirstEntryOnly(f) ==
    IF ~validate_url(f.authorization_url).ok THEN {Err("Invalid authorization URL")}
    ELSE IF f.refresh_url # None /\ ~validate_url(f.refresh_url[1]).ok
    THEN {Err("Invalid refresh URL")}
    ELSE IF f.scopes = {} THEN {Err("OAuth2 flow must define at least one scope")}
    ELSE {IF sc.name = <<>> THEN Err("OAuth2 scope name cannot be empty")
          ELSE IF sc.desc = <<>> THEN Err("OAuth2 scope description cannot be empty")
          ELSE IF contains_char(sc.name, " ")
          THEN Err("OAuth2 scope names cannot contain spaces")
          ELSE Ok : sc \in f.scopes}

ImplicitOAuthFlow_validate(f) ==
    IF ~validate_url(f.authorization_url).ok THEN {Err("Invalid authorization URL")}
    ELSE IF f.refresh_url # None /\ ~validate_url(f.refresh_url[1]).ok
    THEN {Err("Invalid refresh URL")}
    ELSE IF f.scopes = {} THEN {Err("OAuth2 flow must define at least one scope")}
    ELSE LET errs == {Err(IF sc.name = <<>> THEN "OAuth2 scope name cannot be empty"
                          ELSE IF sc.desc = <<>>
                          THEN "OAuth2 scope description cannot be empty"
                          ELSE "OAuth2 scope names cannot contain spaces") :
                        sc \in {x \in f.scopes : \/ x.name = <<>>
                                                 \/ x.desc = <<>>
                                                 \/ contains_char(x.name, " ")}}
         IN IF errs = {} THEN {Ok} ELSE errs

PasswordOAuthFlow_validate_NoSpaceCheck(f) ==
    IF ~validate_url(f.token_url).ok THEN {Err("Invalid token URL")}
    ELSE IF f.refresh_url # None /\ ~validate_url(f.refresh_url[1]).ok
    THEN {Err("Invalid refresh URL")}
    ELSE IF f.scopes = {} THEN {Err("OAuth2 flow must define at least one scope")}
    ELSE LET errs == {Err(IF sc.name = <<>> THEN "OAuth2 scope name cannot be empty"
                          ELSE IF sc.desc = <<>>
                          THEN "OAuth2 scope description cannot be empty"
                          ELSE "OAuth2 scope names cannot contain spaces") :
                        sc \in {x \in f.scopes : \/ x.name = <<>>
                                                 \/ x.desc = <<>>}}
         IN IF errs = {} THEN {Ok} ELSE errs

PasswordOAuthFlow_validate(f) ==
    IF ~validate_url(f.token_url).ok THEN {Err("Invalid token URL")}
    ELSE IF f.refresh_url # None /\ ~validate_url(f.refresh_url[1]).ok
    THEN {Err("Invalid refresh URL")}
    ELSE IF f.scopes = {} THEN {Err("OAuth2 flow must define at least one scope")}
    ELSE LET errs == {Err(IF sc.name = <<>> THEN "OAuth2 scope name cannot be empty"
                          ELSE IF sc.desc = <<>>
                          THEN "OAuth2 scope description cannot be empty"
                          ELSE "OAuth2 scope names cannot contain spaces") :
                        sc \in {x \in f.scopes : \/ x.name = <<>>
                                                 \/ x.desc = <<>>
                                                 \/ contains_char(x.name, " ")}}
         IN IF errs = {} THEN {Ok} ELSE errs

\* Inputs of the flow validators
FlowUrls == {<<"h", "t", "t", "p", "s", ":", "/", "/", "a", "u", "t", "h", ".", "e", "x", "a", "m", "p", "l", "e", ".", "c", "o", "m">>, <<"h", "t", "t", "p", "s", ":", "/", "/", "a", "u", "t", "h", " ", "e", "x", "a", "m", "p", "l", "e", ".", "c", "o", "m">>, <<"f", "t", "p", ":", "/", "/", "a", "u", "t", "h", ".", "e", "x", "a", "m", "p", "l", "e", ".", "c", "o", "m">>}
RefreshUrls == {None, Some(<<"h", "t", "t", "p", "s", ":", "/", "/", "a", "u", "t", "h", ".", "e", "x", "a", "m", "p", "l", "e", ".", "c", "o", "m", "/", "r", "e", "f", "r", "e", "s", "h">>), Some(<<"h", "t", "t", "p", ":", "/", "/", "x">>)}
Scope(name, desc) == [name |-> name, desc |-> desc]
ScopeMaps ==
    {{},
     {Scope(<<"r", "e", "a", "d">>, <<"R", "e", "a", "d", " ", "a", "c", "c", "e", "s", "s">>)},
     {Scope(<<>>, <<"R", "e", "a", "d", " ", "a", "c", "c", "e", "s", "s">>)},
     {Scope(<<"r", "e", "a", "d", " ", "a", "l", "l">>, <<"R", "e", "a", "d", " ", "a", "c", "c", "e", "s", "s">>)},
     {Scope(<<"r", "e", "a", "d">>, <<>>)},
     {Scope(<<"r", "e", "a", "d", " ", "a", "l", "l">>, <<>>)},
     {Scope(<<>>, <<"R", "e", "a", "d", " ", "a", "c", "c", "e", "s", "s">>), Scope(<<"r", "e", "a", "d", " ", "a", "l", "l">>, <<"R", "e", "a", "d", " ", "a", "c", "c", "e", "s", "s">>)},
     {Scope(<<"r", "e", "a", "d">>, <<"R", "e", "a", "d", " ", "a", "c", "c", "e", "s", "s">>), Scope(<<"w", "r", "i", "t", "e">>, <<>>)}}
AuthorizationCodeOAuthFlows ==
    [authorization_url : FlowUrls, token_url : FlowUrls, refresh_url : RefreshUrls,
     scopes : ScopeMaps]
ClientCredentialsOAuthFlows == [token_url : FlowUrls, refresh_url : RefreshUrls, scopes : ScopeMaps]
ImplicitOAuthFlows == [authorization_url : FlowUrls, refresh_url : RefreshUrls, scopes : ScopeMaps]
PasswordOAuthFlows == [token_url : FlowUrls, refresh_url : RefreshUrls, scopes : ScopeMaps]

\* ------------------------------------------------------------------------
\* OAuth2SecurityScheme
\* ------------------------------------------------------------------------
\* The messages of the flow errors end with the message of the flow's
\* validator in the code; the model keeps the fixed part.
OAuth2SecurityScheme_validate_SkipAuthorizationCode(o) ==
    IF o.type_ # "oauth2" THEN Err("OAuth2 security scheme type must be 'oauth2'")
    ELSE IF /\ o.flows.implicit = None
            /\ o.flows.password = None
            /\ o.flows.client_credentials = None
            /\ o.flows.authorization_code = None
    THEN Err("OAuth2 security scheme must define at least one flow")
    ELSE IF /\ o.flows.implicit # None
            /\ \E r \in ImplicitOAuthFlow_validate(o.flows.implicit[1]) : ~r.ok
    THEN Err("Invalid implicit flow")
    ELSE IF /\ o.flows.password # None
            /\ \E r \in PasswordOAuthFlow_validate(o.flows.password[1]) : ~r.ok
    THEN Err("Invalid password flow")
    ELSE IF /\ o.flows.client_credentials # None
            /\ \E r \in ClientCredentialsOAuthFlow_validate(o.flows.client_credentials[1]) : ~r.ok
    THEN Err("Invalid client credentials flow")
    ELSE IF o.description # None /\ ByteLen(o.description[1]) > MaxSchemeDescLen
    THEN Err("Security scheme description is too long (max 500 characters)")
    ELSE Ok

OAuth2SecurityScheme_validate(o) ==
    IF o.type_ # "oauth2" THEN Err("OAuth2 security scheme type must be 'oauth2'")
    ELSE IF /\ o.flows.implicit = None
            /\ o.flows.password = None
            /\ o.flows.client_credentials = None
            /\ o.flows.authorization_code = None
    THEN Err("OAuth2 security scheme must define at least one flow")
    ELSE IF /\ o.flows.implicit # None
            /\ \E r \in ImplicitOAuthFlow_validate(o.flows.implicit[1]) : ~r.ok
    THEN Err("Invalid implicit flow")
    ELSE IF /\ o.flows.password # None
            /\ \E r \in PasswordOAuthFlow_validate(o.flows.password[1]) : ~r.ok
    THEN Err("Invalid password flow")
    ELSE IF /\ o.flows.client_credentials # None
            /\ \E r \in ClientCredentialsOAuthFlow_validate(o.flows.client_credentials[1]) : ~r.ok
    THEN Err("Invalid client credentials flow")
    ELSE IF /\ o.flows.authorization_code # None
            /\ \E r \in AuthorizationCodeOAuthFlow_validate(o.flows.authorization_code[1]) : ~r.ok
    THEN Err("Invalid authorization code flow")
    ELSE IF o.description # None /\ ByteLen(o.description[1]) > MaxSchemeDescLen
    THEN Err("Security scheme description is too long (max 500 characters)")
    ELSE Ok

\* Inputs of the OAuth2 scheme validator: each slot is empty or holds a flow
\* that is valid, has a URL with a space, or has a bad scope map.
OAuth2Flows ==
    LET GoodUrl == <<"h", "t", "t", "p", "s", ":", "/", "/", "a", "u", "t", "h", ".", "e", "x", "a", "m", "p", "l", "e", ".", "c", "o", "m">>
        BadUrl == <<"h", "t", "t", "p", "s", ":", "/", "/", "a", "u", "t", "h", " ", "e", "x", "a", "m", "p", "l", "e", ".", "c", "o", "m">>
        GoodScopes == {Scope(<<"r", "e", "a", "d">>, <<"R", "e", "a", "d", " ", "a", "c", "c", "e", "s", "s">>)}
        ImplicitSlots ==
            {None,
             Some([authorization_url |-> GoodUrl, refresh_url |-> None, scopes |-> GoodScopes]),
             Some([authorization_url |-> BadUrl, refresh_url |-> None, scopes |-> GoodScopes]),
             Some([authorization_url |-> GoodUrl, refresh_url |-> None, scopes |-> {}])}
        PasswordSlots ==
            {None,
             Some([token_url |-> GoodUrl, refresh_url |-> None, scopes |-> GoodScopes]),
             Some([token_url |-> BadUrl, refresh_url |-> None, scopes |-> GoodScopes]),
             Some([token_url |-> GoodUrl, refresh_url |-> None, scopes |-> {}])}
        ClientCredentialsSlots ==
            {None,
             Some([token_url |-> GoodUrl, refresh_url |-> None, scopes |-> GoodScopes]),
             Some([token_url |-> GoodUrl, refresh_url |-> Some(BadUrl), scopes |-> GoodScopes]),
             Some([token_url |-> GoodUrl, refresh_url |-> None, scopes |-> {}])}
        AuthorizationCodeSlots ==
            {None,
             Some([authorization_url |-> GoodUrl, token_url |-> GoodUrl, refresh_url |-> None,
                   scopes |-> GoodScopes]),
             Some([authorization_url |-> GoodUrl, token_url |-> BadUrl, refresh_url |-> None,
                   scopes |-> GoodScopes]),
             Some([authorization_url |-> GoodUrl, token_url |-> GoodUrl, refresh_url |-> None,
                   scopes |-> {Scope(<<"r", "e", "a", "d", " ", "a", "l", "l">>, <<"R", "e", "a", "d", " ", "a", "c", "c", "e", "s", "s">>)}])}
    IN
    [implicit : ImplicitSlots, password : PasswordSlots,
     client_credentials : ClientCredentialsSlots,
     authorization_code : AuthorizationCodeSlots]
OAuth2Schemes ==
    {[type_ |-> td[1], flows |-> fl, description |-> td[2]] :
        fl \in OAuth2Flows,
        td \in {<<"oauth2", None>>, <<"oauth2", Some(Repeat("a", MaxSchemeDescLen + 1))>>,
                <<"oauth", None>>}}

\* ------------------------------------------------------------------------
\* OpenIdConnectSecurityScheme
\* ------------------------------------------------------------------------
OpenIdConnectSecurityScheme_validate_AnyProtocol(s) ==
    IF s.type_ # "openIdConnect"
    THEN Err("OpenID Connect security scheme type must be 'openIdConnect'")
    ELSE IF ~validate_url(s.open_id_connect_url).ok THEN Err("Invalid OpenID Connect URL")
    ELSE IF /\ ~contains_str(s.open_id_connect_url, <<"/", ".", "w", "e", "l", "l", "-", "k", "n", "o", "w", "n", "/", "o", "p", "e", "n", "i", "d", "_", "c", "o", "n", "f", "i", "g", "u", "r", "a", "t", "i", "o", "n">>)
            /\ ~contains_str(s.open_id_connect_url, <<"/", ".", "w", "e", "l", "l", "-", "k", "n", "o", "w", "n", "/", "o", "p", "e", "n", "i", "d", "-", "c", "o", "n", "f", "i", "g", "u", "r", "a", "t", "i", "o", "n">>)
    THEN Err("OpenID Connect URL should point to a well-known configuration endpoint")
    ELSE IF s.description # None /\ ByteLen(s.description[1]) > MaxSchemeDescLen
    THEN Err("Security scheme description is too long (max 500 characters)")
    ELSE Ok

\* The message of the URL error ends with the message of validate_url in the
\* code; the model keeps the fixed part.
OpenIdConnectSecurityScheme_validate(s) ==
    IF s.type_ # "openIdConnect"
    THEN Err("OpenID Connect security scheme type must be 'openIdConnect'")
    ELSE IF ~validate_url(s.open_id_connect_url).ok THEN Err("Invalid OpenID Connect URL")
    ELSE IF ~starts_with(s.open_id_connect_url, HttpsPrefix)
    THEN Err("OpenID Connect URL must use HTTPS")
    ELSE IF /\ ~contains_str(s.open_id_connect_url, <<"/", ".", "w", "e", "l", "l", "-", "k", "n", "o", "w", "n", "/", "o", "p", "e", "n", "i", "d", "_", "c", "o", "n", "f", "i", "g", "u", "r", "a", "t", "i", "o", "n">>)
            /\ ~contains_str(s.open_id_connect_url, <<"/", ".", "w", "e", "l", "l", "-", "k", "n", "o", "w", "n", "/", "o", "p", "e", "n", "i", "d", "-", "c", "o", "n", "f", "i", "g", "u", "r", "a", "t", "i", "o", "n">>)
    THEN Err("OpenID Connect URL should point to a well-known configuration endpoint")
    ELSE IF s.description # None /\ ByteLen(s.description[1]) > MaxSchemeDescLen
    THEN Err("Security scheme description is too long (max 500 characters)")
    ELSE Ok

OpenIdConnectSchemes ==
    LET OpenIdConnectUrls ==
            {<<>>,
             <<"h", "t", "t", "p", "s", ":", "/", "/", "e", "x", "a", "m", "p", "l", "e", ".", "c", "o", "m", "/", ".", "w", "e", "l", "l", "-", "k", "n", "o", "w", "n", "/", "o", "p", "e", "n", "i", "d", "-", "c", "o", "n", "f", "i", "g", "u", "r", "a", "t", "i", "o", "n">>,
             <<"h", "t", "t", "p", "s", ":", "/", "/", "e", "x", "a", "m", "p", "l", "e", ".", "c", "o", "m", "/", ".", "w", "e", "l", "l", "-", "k", "n", "o", "w", "n", "/", "o", "p", "e", "n", "i", "d", "_", "c", "o", "n", "f", "i", "g", "u", "r", "a", "t", "i", "o", "n">>,
             <<"h", "t", "t", "p", ":", "/", "/", "e", "x", "a", "m", "p", "l", "e", ".", "c", "o", "m", "/", ".", "w", "e", "l", "l", "-", "k", "n", "o", "w", "n", "/", "o", "p", "e", "n", "i", "d", "-", "c", "o", "n", "f", "i", "g", "u", "r", "a", "t", "i", "o", "n">>,
             <<"h", "t", "t", "p", ":", "/", "/", "e", "x", "a", "m", "p", "l", "e", ".", "c", "o", "m", "/", ".", "w", "e", "l", "l", "-", "k", "n", "o", "w", "n", "/", "o", "p", "e", "n", "i", "d", "_", "c", "o", "n", "f", "i", "g", "u", "r", "a", "t", "i", "o", "n">>,
             <<"h", "t", "t", "p", "s", ":", "/", "/", "e", "x", "a", "m", "p", "l", "e", ".", "c", "o", "m", "/", "r", "e", "a", "l", "m", "s", "/", "a", "/", ".", "w", "e", "l", "l", "-", "k", "n", "o", "w", "n", "/", "o", "p", "e", "n", "i", "d", "-", "c", "o", "n", "f", "i", "g", "u", "r", "a", "t", "i", "o", "n", "?", "x", "=", "1">>,
             <<"h", "t", "t", "p", "s", ":", "/", "/", "e", "x", "a", "m", "p", "l", "e", ".", "c", "o", "m", "/", "o", "p", "e", "n", "i", "d">>,
             <<"h", "t", "t", "p", "s", ":", "/", "/", "e", "x", "a", "m", "p", "l", "e", ".", "c", "o", "m", "/", ".", "w", "e", "l", "l", "-", "k", "n", "o", "w", "n", "/", "o", "p", "e", "n", "i", "d", ".", "c", "o", "n", "f", "i", "g", "u", "r", "a", "t", "i", "o", "n">>,
             <<"h", "t", "t", "p", "s", ":", "/", "/", "e", "x", "a", "m", "p", "l", "e", ".", "c", "o", "m", "/", "w", "e", "l", "l", "-", "k", "n", "o", "w", "n", "/", "o", "p", "e", "n", "i", "d", "-", "c", "o", "n", "f", "i", "g", "u", "r", "a", "t", "i", "o", "n">>,
             <<"h", "t", "t", "p", "s", ":", "/", "/", "e", "x", "a", "m", " ", "p", "l", "e", ".", "c", "o", "m", "/", ".", "w", "e", "l", "l", "-", "k", "n", "o", "w", "n", "/", "o", "p", "e", "n", "i", "d", "-", "c", "o", "n", "f", "i", "g", "u", "r", "a", "t", "i", "o", "n">>,
             <<"f", "t", "p", ":", "/", "/", "e", "x", "a", "m", "p", "l", "e", ".", "c", "o", "m", "/", ".", "w", "e", "l", "l", "-", "k", "n", "o", "w", "n", "/", "o", "p", "e", "n", "i", "d", "-", "c", "o", "n", "f", "i", "g", "u", "r", "a", "t", "i", "o", "n">>,
             <<"h", "t", "t", "p", ":", "/", "/", "e", "x", "a", "m", "p", "l", "e", ".", "c", "o", "m", "/", "o", "p", "e", "n", "i", "d">>}
    IN
    [type_ : {"openIdConnect", "openidconnect"}, open_id_connect_url : OpenIdConnectUrls,
     description : {None, Some(Repeat("a", MaxSchemeDescLen + 1))}]

\* ------------------------------------------------------------------------
\* Message, Part and FileContent on the wire
\* ------------------------------------------------------------------------
\* A JSON array with its items
JList(items) == [t |-> "array", items |-> items]

\* Option<String>::deserialize of a field: a missing field and a JSON null
\* give None, a string gives Some, anything else is a type error.
deserialize_option_string(field) ==
    IF field = None \/ field[1].t = "null" THEN DecodeOk(None)
    ELSE IF field[1].t = "string" THEN DecodeOk(Some(field[1].s))
    ELSE DecodeErr("invalid type: expected a string")

\* Option<Vec<String>>::deserialize of a field
deserialize_option_strings(field) ==
    IF field = None \/ field[1].t = "null" THEN DecodeOk(None)
    ELSE IF field[1].t # "array" THEN DecodeErr("invalid type: expected a sequence")
    ELSE IF \E i \in 1..Len(field[1].items) : field[1].items[i].t # "string"
    THEN DecodeErr("invalid type: expected a string")
    ELSE DecodeOk(Some([i \in 1..Len(field[1].items) |-> field[1].items[i].s]))

serialize_option_string(o) == IF o = None THEN None ELSE Some(JStr(o[1]))
serialize_option_strings(o) ==
    IF o = None THEN None ELSE Some(JList([i \in 1..Len(o[1]) |-> JStr(o[1][i])]))
serialize_option_value(o) == IF o = None THEN None ELSE Some(o[1])

\* The file object as far as the decoders read it: the four keys they look
\* up, each absent (None) or present (Some(value)).
JFile(bytes, uri, name, mimeType) ==
    [t |-> "object", bytes |-> bytes, uri |-> uri, name |-> name, mimeType |-> mimeType]

FileWithBytes(bytes, name, mime_type) ==
    [variant |-> "WithBytes", bytes |-> bytes, name |-> name, mime_type |-> mime_type]
FileWithUri(uri, name, mime_type) ==
    [variant |-> "WithUri", uri |-> uri, name |-> name, mime_type |-> mime_type]

\* derive(Deserialize) of FileWithBytes: from an object by key, from an array
\* of exactly three items by position.
FileWithBytes_deserialize(v) ==
    IF v.t = "array"
    THEN IF Len(v.items) # 3 THEN DecodeErr("invalid length")
         ELSE IF v.items[1].t # "string" THEN DecodeErr("invalid type: expected a string")
         ELSE IF ~deserialize_option_string(Some(v.items[2])).ok
         THEN deserialize_option_string(Some(v.items[2]))
         ELSE IF ~deserialize_option_string(Some(v.items[3])).ok
         THEN deserialize_option_string(Some(v.items[3]))
         ELSE DecodeOk(FileWithBytes(v.items[1].s,
                                     deserialize_option_string(Some(v.items[2])).val,
                                     deserialize_option_string(Some(v.items[3])).val))
    ELSE IF v.t # "object" THEN DecodeErr("invalid type: expected struct FileWithBytes")
    ELSE IF v.bytes = None THEN DecodeErr("missing field bytes")
    ELSE IF v.bytes[1].t # "string" THEN DecodeErr("invalid type: expected a string")
    ELSE IF ~deserialize_option_string(v.name).ok THEN deserialize_option_string(v.name)
    ELSE IF ~deserialize_option_string(v.mimeType).ok
    THEN deserialize_option_string(v.mimeType)
    ELSE DecodeOk(FileWithBytes(v.bytes[1].s, deserialize_option_string(v.name).val,
                                deserialize_option_string(v.mimeType).val))

\* derive(Deserialize) of FileWithUri
FileWithUri_deserialize(v) ==
    IF v.t = "array"
    THEN IF Len(v.items) # 3 THEN DecodeErr("invalid length")
         ELSE IF v.items[1].t # "string" THEN DecodeErr("invalid type: expected a string")
         ELSE IF ~deserialize_option_string(Some(v.items[2])).ok
         THEN deserialize_option_string(Some(v.items[2]))
         ELSE IF ~deserialize_option_string(Some(v.items[3])).ok
         THEN deserialize_option_string(Some(v.items[3]))
         ELSE DecodeOk(FileWithUri(v.items[1].s,
                                   deserialize_option_string(Some(v.items[2])).val,
                                   deserialize_option_string(Some(v.items[3])).val))
    ELSE IF v.t # "object" THEN DecodeErr("invalid type: expected struct FileWithUri")
    ELSE IF v.uri = None THEN DecodeErr("missing field uri")
    ELSE IF v.uri[1].t # "string" THEN DecodeErr("invalid type: expected a string")
    ELSE IF ~deserialize_option_string(v.name).ok THEN deserialize_option_string(v.name)
    ELSE IF ~deserialize_option_string(v.mimeType).ok
    THEN deserialize_option_string(v.mimeType)
    ELSE DecodeOk(FileWithUri(v.uri[1].s, deserialize_option_string(v.name).val,
                              deserialize_option_string(v.mimeType).val))

\* serde(untagged) on FileContent: the variants are tried in declaration
\* order and the first that decodes wins.
FileContent_deserialize_UriFirst(v) ==
    IF FileWithUri_deserialize(v).ok THEN FileWithUri_deserialize(v)
    ELSE IF FileWithBytes_deserialize(v).ok THEN FileWithBytes_deserialize(v)
    ELSE DecodeErr("data did not match any variant of untagged enum FileContent")

FileContent_deserialize(v) ==
    IF FileWithBytes_deserialize(v).ok THEN FileWithBytes_deserialize(v)
    ELSE IF FileWithUri_deserialize(v).ok THEN FileWithUri_deserialize(v)
    ELSE DecodeErr("data did not match any variant of untagged enum FileContent")

FileContent_serialize(f) ==
    IF f.variant = "WithBytes"
    THEN JFile(Some(JStr(f.bytes)), None, serialize_option_string(f.name),
               serialize_option_string(f.mime_type))
    ELSE JFile(None, Some(JStr(f.uri)), serialize_option_string(f.name),
               serialize_option_string(f.mime_type))

\* The part object as far as the decoder reads it
JPart(kind, text, file, data, metadata) ==
    [t |-> "object", kind |-> kind, text |-> text, file |-> file, data |-> data,
     metadata |-> metadata]

TextPart(text, metadata) == [variant |-> "Text", text |-> text, metadata |-> metadata]
FilePart(file, metadata) == [variant |-> "File", file |-> file, metadata |-> metadata]
DataPart(data, metadata) == [variant |-> "Data", data |-> data, metadata |-> metadata]

\* serde(tag = "kind") on Part
Part_serialize(p) ==
    IF p.variant = "Text"
    THEN JPart(Some(JStr("text")), Some(JStr(p.text)), None, None,
               serialize_option_value(p.metadata))
    ELSE IF p.variant = "File"
    THEN JPart(Some(JStr("file")), None, Some(FileContent_serialize(p.file)), None,
               serialize_option_value(p.metadata))
    ELSE JPart(Some(JStr("data")), None, None, Some(p.data),
               serialize_option_value(p.metadata))

Part_deserialize(v) ==
    IF v.t # "object" THEN DecodeErr("invalid type: expected internally tagged enum Part")
    ELSE IF v.kind = None THEN DecodeErr("missing field kind")
    ELSE IF v.kind[1].t # "string" \/ v.kind[1].s \notin {"text", "file", "data"}
    THEN DecodeErr("unknown variant")
    ELSE IF v.kind[1].s = "text"
    THEN IF v.text = None THEN DecodeErr("missing field text")
         ELSE IF v.text[1].t # "string" THEN DecodeErr("invalid type: expected a string")
         ELSE DecodeOk(TextPart(v.text[1].s, deserialize_option(v.metadata)))
    ELSE IF v.kind[1].s = "file"
    THEN IF v.file = None THEN DecodeErr("missing field file")
         ELSE IF ~FileContent_deserialize(v.file[1]).ok THEN FileContent_deserialize(v.file[1])
         ELSE DecodeOk(FilePart(FileContent_deserialize(v.file[1]).val,
                                deserialize_option(v.metadata)))
    ELSE IF v.data = None THEN DecodeErr("missing field data")
         ELSE DecodeOk(DataPart(v.data[1], deserialize_option(v.metadata)))

MessageRole == {"Agent", "User"}
MessageRole_serialize(r) == IF r = "Agent" THEN "agent" ELSE "user"

\* The message object as far as the decoder reads it
JMessage(kind, messageId, parts, role, contextId, extensions, metadata, refIds, taskId) ==
    [t |-> "object", kind |-> kind, messageId |-> messageId, parts |-> parts, role |-> role,
     contextId |-> contextId, extensions |-> extensions, metadata |-> metadata,
     referenceTaskIds |-> refIds, taskId |-> taskId]

Message(kind, message_id, parts, role, context_id, extensions, metadata, ref_ids, task_id) ==
    [kind |-> kind, message_id |-> message_id, parts |-> parts, role |-> role,
     context_id |-> context_id, extensions |-> extensions, metadata |-> metadata,
     reference_task_ids |-> ref_ids, task_id |-> task_id]

\* derive(Serialize) of Message: an Option that is None is left out.
Message_serialize(m) ==
    JMessage(Some(JStr(m.kind)), Some(JStr(m.message_id)),
             Some(JList([i \in 1..Len(m.parts) |-> Part_serialize(m.parts[i])])),
             Some(JStr(MessageRole_serialize(m.role))),
             serialize_option_string(m.context_id),
             serialize_option_strings(m.extensions),
             serialize_option_value(m.metadata),
             serialize_option_strings(m.reference_task_ids),
             serialize_option_string(m.task_id))

\* derive(Deserialize) of Message. When several fields are wrong the code
\* reports the one it meets first in the text; the model reports one of them.
Message_deserialize(v) ==
    IF v.t # "object" THEN DecodeErr("invalid type: expected struct Message")
    ELSE IF v.kind = None THEN DecodeErr("missing field kind")
    ELSE IF v.kind[1].t # "string" THEN DecodeErr("invalid type: expected a string")
    ELSE IF v.messageId = None THEN DecodeErr("missing field messageId")
    ELSE IF v.messageId[1].t # "string" THEN DecodeErr("invalid type: expected a string")
    ELSE IF v.parts = None THEN DecodeErr("missing field parts")
    ELSE IF v.parts[1].t # "array" THEN DecodeErr("invalid type: expected a sequence")
    ELSE IF \E i \in 1..Len(v.parts[1].items) : ~Part_deserialize(v.parts[1].items[i]).ok
    THEN DecodeErr("invalid part")
    ELSE IF v.role = None THEN DecodeErr("missing field role")
    ELSE IF v.role[1].t # "string" \/ v.role[1].s \notin {"agent", "user"}
    THEN DecodeErr("unknown variant")
    ELSE IF ~deserialize_option_string(v.contextId).ok
    THEN deserialize_option_string(v.contextId)
    ELSE IF ~deserialize_option_strings(v.extensions).ok
    THEN deserialize_option_strings(v.extensions)
    ELSE IF ~deserialize_option_strings(v.referenceTaskIds).ok
    THEN deserialize_option_strings(v.referenceTaskIds)
    ELSE IF ~deserialize_option_string(v.taskId).ok THEN deserialize_option_string(v.taskId)
    ELSE DecodeOk(Message(v.kind[1].s, v.messageId[1].s,
                          [i \in 1..Len(v.parts[1].items) |->
                              Part_deserialize(v.parts[1].items[i]).val],
                          IF v.role[1].s = "agent" THEN "Agent" ELSE "User",
                          deserialize_option_string(v.contextId).val,
                          deserialize_option_strings(v.extensions).val,
                          deserialize_option(v.metadata),
                          deserialize_option_strings(v.referenceTaskIds).val,
                          deserialize_option_string(v.taskId).val))

\* Inputs of the message round trip
MetadataValues == {None, Some(JNull), Some(JInt(7)), Some(JStr("v"))}
MessageInputs ==
    LET FileContents ==
            {FileWithBytes("aGk=", None, None), FileWithBytes("aGk=", Some("a.txt"), Some("text/plain")),
             FileWithUri("https://example.com/a.txt", None, Some("text/plain"))}
        MessageParts ==
            {<<>>, <<TextPart("Hello", None)>>, <<TextPart("Hello", Some(JNull))>>,
             <<DataPart(JNull, None), TextPart("Hello", Some(JInt(7)))>>,
             <<DataPart(JInt(7), Some(JStr("v")))>>}
                \cup {<<FilePart(f, None)>> : f \in FileContents}
        MessageOptions ==
            {<<None, None, None, None>>,
             <<Some("ctx-1"), Some(<<>>), Some(<<"task-1">>), Some("task-1")>>,
             <<None, Some(<<"https://example.com/ext">>), None, Some("task-1")>>}
    IN
    {Message("message", "msg-1", p, r, o[1], o[2], md, o[3], o[4]) :
        p \in MessageParts, r \in MessageRole, md \in MetadataValues, o \in MessageOptions}

\* Inputs of the file content decoder
FileWires ==
    {JFile(b, u, n, m) :
        b \in {None, Some(JStr("aGk=")), Some(JInt(1)), Some(JNull)},
        u \in {None, Some(JStr("https://example.com/a.txt")), Some(JInt(5))},
        n \in {None, Some(JNull), Some(JStr("a.txt")), Some(JInt(1))},
        m \in {None, Some(JStr("text/plain"))}}
        \cup {JNull, JStr("aGk="), JInt(1), JList(<<>>),
              JList(<<JStr("aGk="), JNull, JStr("text/plain")>>),
              JList(<<JStr("aGk="), JNull, JNull, JNull>>),
              JList(<<JInt(1), JNull, JNull>>)}

\* ------------------------------------------------------------------------
\* Request constructors
\* ------------------------------------------------------------------------
SendMessageRequest_new(id, message_id, text, role, configuration, metadata) ==
    [method |-> "MessageSend",
     params |-> [message |-> Message("message", message_id, <<TextPart(text, None)>>, role,
                                     None, None, None, None, None),
                 configuration |-> configuration,
                 metadata |-> metadata],
     id |-> id,
     jsonrpc |-> "2.0"]

GetTaskRequest_new(id, task_id) ==
    [method |-> "TasksGet", params |-> [task_id |-> task_id], id |-> id, jsonrpc |-> "2.0"]

CancelTaskRequest_new_AsGet(id, task_id) ==
    [method |-> "TasksGet", params |-> [task_id |-> task_id], id |-> id, jsonrpc |-> "2.0"]

CancelTaskRequest_new(id, task_id) ==
    [method |-> "TasksCancel", params |-> [task_id |-> task_id], id |-> id, jsonrpc |-> "2.0"]

\* Inputs of the constructors
RequestIds == {"", "req-1", "1.0"}
RequestTaskIds == {"", "task-1", "req-1"}
MessageTexts == {"", "Hello, world!"}
MessageSendConfigurations ==
    {None,
     Some([accepted_output_modes |-> <<"text">>, blocking |-> Some(TRUE),
           history_length |-> None, push_notification_config |-> None])}

\* Inputs of the params validator, which does not look at the URI's form
ParamsExtensions ==
    LET ParamsUris ==
            {<<"h", "t", "t", "p", "s", ":", "/", "/", "e", "x", "a", "m", "p", "l", "e", ".", "c", "o", "m", "/", "o", "a", "u", "t", "h", "-", "e", "x", "t", "e", "n", "s", "i", "o", "n">>, <<"h", "t", "t", "p", "s", ":", "/", "/", "e", "x", "a", "m", "p", "l", "e", ".", "c", "o", "m", "/", "a", "u", "t", "h">>,
             <<"h", "t", "t", "p", "s", ":", "/", "/", "e", "x", "a", "m", "p", "l", "e", ".", "c", "o", "m", "/", "w", "e", "b", "h", "o", "o", "k">>, <<"h", "t", "t", "p", ":", "/", "/", "e", "x", "a", "m", "p", "l", "e", ".", "c", "o", "m", "/", "n", "o", "t", "i", "f", "i", "c", "a", "t", "i", "o", "n">>,
             <<"h", "t", "t", "p", "s", ":", "/", "/", "e", "x", "a", "m", "p", "l", "e", ".", "c", "o", "m", "/", "a", "u", "t", "h", "/", "w", "e", "b", "h", "o", "o", "k">>, <<"h", "t", "t", "p", "s", ":", "/", "/", "e", "x", "a", "m", "p", "l", "e", ".", "c", "o", "m", "/", "n", "o", "t", "i", "f", "i", "c", "a", "t", "i", "o", "n", "?", "a", "u", "t", "h", "o", "r", "=", "1">>,
             <<"h", "t", "t", "p", "s", ":", "/", "/", "e", "x", "a", "m", "p", "l", "e", ".", "c", "o", "m", "/", "e", "x", "t">>, <<"h", "t", "t", "p", "s", ":", "/", "/", "e", "x", "a", "m", "p", "l", "e", ".", "c", "o", "m", "/", "O", "A", "u", "t", "h", "/", "W", "e", "b", "h", "o", "o", "k">>, <<"a", "u", "t", "h">>}
    IN
    [uri : ParamsUris, description : {None}, params : ExtensionParams]

\* ------------------------------------------------------------------------
\* helpers and FromStr: the errors the library constructs
\* ------------------------------------------------------------------------
\* serde_json::from_str on the texts the model feeds it: a scalar, an empty
\* array or an empty object parses, every other text of the inputs is
\* malformed JSON.
serde_json_from_str(json) ==
    CASE json = "null" -> DecodeOk(JNull)
      [] json = "true" -> DecodeOk(JBool(TRUE))
      [] json = "7" -> DecodeOk(JInt(7))
      [] json = "\"detail\"" -> DecodeOk(JStr("detail"))
      [] json = "[]" -> DecodeOk(JArray)
      [] json = " {} " -> DecodeOk(JObject(None, None, None))
      [] OTHER -> DecodeErr("expected value")

\* The message of the error ends with the message of serde_json in the code;
\* the model keeps the fixed part.
parse_request_InvalidRequestCode(json) ==
    IF serde_json_from_str(json).ok THEN serde_json_from_str(json)
    ELSE [ok |-> FALSE, err |-> A2AError("JSONParse", -32600, "Invalid JSON payload", None)]

parse_request(json) ==
    IF serde_json_from_str(json).ok THEN serde_json_from_str(json)
    ELSE [ok |-> FALSE, err |-> A2AError("JSONParse", -32700, "Invalid JSON payload", None)]

\* serde_json::to_string of a response: a value whose Serialize writes a map
\* with a key that is not a string or a number fails, the other responses
\* of the model give their text.
serde_json_to_string(response) ==
    CASE response.t = "null" -> DecodeOk("null")
      [] response.t = "int" /\ response.n = 7 -> DecodeOk("7")
      [] response.t = "string" /\ response.s = "detail" -> DecodeOk("\"detail\"")
      [] response.t = "map" /\ response.key = "string" -> DecodeOk("{\"a\":1}")
      [] OTHER -> DecodeErr("key must be a string")

serialize_response(response) ==
    IF serde_json_to_string(response).ok THEN serde_json_to_string(response)
    ELSE [ok |-> FALSE, err |-> A2AError("Internal", -32603, "Internal error", None)]

\* impl FromStr for RequestMethod; the message ends with the string in the
\* code.
RequestMethod_FromStr(s) ==
    IF from_str(s) # None THEN DecodeOk(from_str(s)[1])
    ELSE [ok |-> FALSE, err |-> A2AError("MethodNotFound", -32601, "Method not found", None)]

\* ------------------------------------------------------------------------
\* SecurityScheme
\* ------------------------------------------------------------------------
\* The scheme object as far as the decoders read it: the keys they look up,
\* each absent (None) or present (Some(value)). `type` holds a JStr, the
\* other strings hold their characters (JText).
JScheme(type, in, name, scheme, bearerFormat, flows, openIdConnectUrl, description) ==
    [t |-> "object", type |-> type, in |-> in, name |-> name, scheme |-> scheme,
     bearerFormat |-> bearerFormat, flows |-> flows, openIdConnectUrl |-> openIdConnectUrl,
     description |-> description]

\* derive(Deserialize), rename_all camelCase, of OAuth2Flows and of the four
\* flow records. A flow object holds authorizationUrl, tokenUrl, refreshUrl
\* and scopes, each absent or present; a scopes object holds its entries.
OAuth2Flows_deserialize(v) ==
    LET text(f) == f # None /\ f[1].t = "string"
        optText(f) == f = None \/ f[1].t \in {"null", "string"}
        opt(f) == IF f = None \/ f[1].t = "null" THEN None ELSE Some(f[1].chars)
        common(w) == /\ w.t = "object"
                     /\ optText(w.refreshUrl)
                     /\ w.scopes # None
                     /\ w.scopes[1].t = "object"
        okImplicit(w) == common(w) /\ text(w.authorizationUrl)
        okToken(w) == common(w) /\ text(w.tokenUrl)
        okCode(w) == common(w) /\ text(w.authorizationUrl) /\ text(w.tokenUrl)
        absent(f) == f = None \/ f[1].t = "null"
        implicit(w) == [authorization_url |-> w.authorizationUrl[1].chars,
                        refresh_url |-> opt(w.refreshUrl), scopes |-> w.scopes[1].entries]
        token(w) == [token_url |-> w.tokenUrl[1].chars,
                     refresh_url |-> opt(w.refreshUrl), scopes |-> w.scopes[1].entries]
        code(w) == [authorization_url |-> w.authorizationUrl[1].chars,
                    token_url |-> w.tokenUrl[1].chars,
                    refresh_url |-> opt(w.refreshUrl), scopes |-> w.scopes[1].entries]
    IN  IF v.t # "object" THEN DecodeErr("invalid type: expected struct OAuth2Flows")
        ELSE IF ~absent(v.implicit) /\ ~okImplicit(v.implicit[1])
        THEN DecodeErr("invalid implicit flow")
        ELSE IF ~absent(v.password) /\ ~okToken(v.password[1])
        THEN DecodeErr("invalid password flow")
        ELSE IF ~absent(v.clientCredentials) /\ ~okToken(v.clientCredentials[1])
        THEN DecodeErr("invalid clientCredentials flow")
        ELSE IF ~absent(v.authorizationCode) /\ ~okCode(v.authorizationCode[1])
        THEN DecodeErr("invalid authorizationCode flow")
        ELSE DecodeOk(
            [implicit |-> IF absent(v.implicit) THEN None ELSE Some(implicit(v.implicit[1])),
             password |-> IF absent(v.password) THEN None ELSE Some(token(v.password[1])),
             client_credentials |-> IF absent(v.clientCredentials) THEN None
                                    ELSE Some(token(v.clientCredentials[1])),
             authorization_code |-> IF absent(v.authorizationCode) THEN None
                                    ELSE Some(code(v.authorizationCode[1]))])

\* serde(untagged) on SecurityScheme: ApiKey, Http, OAuth2 and OpenIdConnect
\* are tried in this order and the first record that decodes wins; a key a
\* record does not know is ignored.
SecurityScheme_deserialize(v) ==
    LET text(f) == f # None /\ f[1].t = "string"
        optText(f) == f = None \/ f[1].t \in {"null", "string"}
        opt(f) == IF f = None \/ f[1].t = "null" THEN None ELSE Some(f[1].chars)
        typed == text(v.type) /\ optText(v.description)
        location == CASE v.in[1].chars = <<"c", "o", "o", "k", "i", "e">> -> "Cookie"
                      [] v.in[1].chars = <<"h", "e", "a", "d", "e", "r">> -> "Header"
                      [] v.in[1].chars = <<"q", "u", "e", "r", "y">> -> "Query"
                      [] OTHER -> ""
        isApiKey == typed /\ text(v.in) /\ location # "" /\ text(v.name)
        isHttp == typed /\ text(v.scheme) /\ optText(v.bearerFormat)
        isOAuth2 == typed /\ v.flows # None /\ OAuth2Flows_deserialize(v.flows[1]).ok
        isOpenIdConnect == typed /\ text(v.openIdConnectUrl)
    IN  IF v.t # "object"
        THEN DecodeErr("data did not match any variant of untagged enum SecurityScheme")
        ELSE IF isApiKey
        THEN DecodeOk([variant |-> "ApiKey",
                       scheme |-> [type_ |-> v.type[1].s, in_ |-> location,
                                   name |-> v.name[1].chars,
                                   description |-> opt(v.description)]])
        ELSE IF isHttp
        THEN DecodeOk([variant |-> "Http",
                       scheme |-> [type_ |-> v.type[1].s, scheme |-> v.scheme[1].chars,
                                   bearer_format |-> opt(v.bearerFormat),
                                   description |-> opt(v.description)]])
        ELSE IF isOAuth2
        THEN DecodeOk([variant |-> "OAuth2",
                       scheme |-> [type_ |-> v.type[1].s,
                                   flows |-> OAuth2Flows_deserialize(v.flows[1]).val,
                                   description |-> opt(v.description)]])
        ELSE IF isOpenIdConnect
        THEN DecodeOk([variant |-> "OpenIdConnect",
                       scheme |-> [type_ |-> v.type[1].s,
                                   open_id_connect_url |-> v.openIdConnectUrl[1].chars,
                                   description |-> opt(v.description)]])
        ELSE DecodeErr("data did not match any variant of untagged enum SecurityScheme")

SecurityScheme_validate(s) ==
    CASE s.variant = "ApiKey" -> ApiKeySecurityScheme_validate(s.scheme)
      [] s.variant = "Http" -> HttpSecurityScheme_validate(s.scheme)
      [] s.variant = "OAuth2" -> OAuth2SecurityScheme_validate(s.scheme)
      [] s.variant = "OpenIdConnect" -> OpenIdConnectSecurityScheme_validate(s.scheme)

scheme_type_LowerCase(s) ==
    CASE s.variant = "ApiKey" -> "apikey"
      [] s.variant = "Http" -> "http"
      [] s.variant = "OAuth2" -> "oauth2"
      [] s.variant = "OpenIdConnect" -> "openidconnect"

scheme_type(s) ==
    CASE s.variant = "ApiKey" -> "apiKey"
      [] s.variant = "Http" -> "http"
      [] s.variant = "OAuth2" -> "oauth2"
      [] s.variant = "OpenIdConnect" -> "openIdConnect"

\* ------------------------------------------------------------------------
\* Specification
\* ------------------------------------------------------------------------
Init ==
    /\ state \in TaskState
    /\ op = "idle"
    /\ arg = <<>>
    /\ res = Ok
    /\ history = <<>>

\* A caller asks for a state change and stores the new state only when the
\* check accepts it.
Transition ==
    \E to \in TaskState :
        /\ op = "idle"
        /\ op' = "validate_task_state_transition"
        /\ arg' = [from |-> state, to |-> to]
        /\ res' = validate_task_state_transition(state, to)
        /\ state' = IF res'.ok THEN to ELSE state
        /\ UNCHANGED history

ValidateUrl ==
    \E url \in UrlInputs :
        /\ op = "idle"
        /\ op' = "validate_url"
        /\ arg' = url
        /\ res' = validate_url(url)
        /\ UNCHANGED <<state, history>>

\* The identifier validators are called on the same string, as a caller
\* comparing them would.
ValidateIds ==
    \E id \in IdInputs :
        /\ op = "idle"
        /\ op' = "validate_id"
        /\ arg' = id
        /\ res' = [task_id |-> validate_task_id(id), skill_id |-> validate_skill_id(id)]
        /\ UNCHANGED <<state, history>>

ValidateStatusEvent ==
    \E e \in StatusEvents :
        /\ op = "idle"
        /\ op' = "TaskStatusUpdateEvent::validate"
        /\ arg' = e
        /\ res' = TaskStatusUpdateEvent_validate(e)
        /\ UNCHANGED <<state, history>>

ValidateArtifactEvent ==
    \E e \in ArtifactEvents :
        /\ op = "idle"
        /\ op' = "TaskArtifactUpdateEvent::validate"
        /\ arg' = e
        /\ res' = TaskArtifactUpdateEvent_validate(e)
        /\ UNCHANGED <<state, history>>

\* serde_json::to_string followed by serde_json::from_str
ErrorRoundTrip ==
    \E e \in ErrorValues :
        /\ op = "idle"
        /\ op' = "A2AError::round_trip"
        /\ arg' = e
        /\ res' = A2AError_deserialize(A2AError_serialize(e))
        /\ UNCHANGED <<state, history>>

ErrorDecode ==
    \E w \in WireValues :
        /\ op = "idle"
        /\ op' = "A2AError::deserialize"
        /\ arg' = w
        /\ res' = A2AError_deserialize(w)
        /\ UNCHANGED <<state, history>>

\* Decode a method from the wire and, when that succeeds, encode it again.
MethodDecode ==
    \E w \in MethodWires :
        /\ op = "idle"
        /\ op' = "RequestMethod::deserialize"
        /\ arg' = w
        /\ res' = LET d == RequestMethod_deserialize(w)
                  IN  IF d.ok
                      THEN [ok |-> TRUE, val |-> d.val,
                            encoded |-> RequestMethod_serialize(d.val),
                            str |-> as_str(d.val)]
                      ELSE [ok |-> FALSE, val |-> "", encoded |-> "", str |-> ""]
        /\ UNCHANGED <<state, history>>

ValidateExtension ==
    \E e \in AgentExtensions :
        /\ op = "idle"
        /\ op' = "AgentExtension::validate"
        /\ arg' = e
        /\ res' = AgentExtension_validate(e)
        /\ UNCHANGED <<state, history>>

ValidateApiKeyScheme ==
    \E k \in ApiKeySchemes :
        /\ op = "idle"
        /\ op' = "ApiKeySecurityScheme::validate"
        /\ arg' = k
        /\ res' = ApiKeySecurityScheme_validate(k)
        /\ UNCHANGED <<state, history>>

ValidateHttpScheme ==
    \E h \in HttpSchemes :
        /\ op = "idle"
        /\ op' = "HttpSecurityScheme::validate"
        /\ arg' = h
        /\ res' = HttpSecurityScheme_validate(h)
        /\ UNCHANGED <<state, history>>

ValidateAuthorizationCodeFlow ==
    \E f \in AuthorizationCodeOAuthFlows :
        /\ op = "idle"
        /\ op' = "AuthorizationCodeOAuthFlow::validate"
        /\ arg' = f
        /\ res' \in AuthorizationCodeOAuthFlow_validate(f)
        /\ UNCHANGED <<state, history>>

ValidateClientCredentialsFlow ==
    \E f \in ClientCredentialsOAuthFlows :
        /\ op = "idle"
        /\ op' = "ClientCredentialsOAuthFlow::validate"
        /\ arg' = f
        /\ res' \in ClientCredentialsOAuthFlow_validate(f)
        /\ UNCHANGED <<state, history>>

ValidateImplicitFlow ==
    \E f \in ImplicitOAuthFlows :
        /\ op = "idle"
        /\ op' = "ImplicitOAuthFlow::validate"
        /\ arg' = f
        /\ res' \in ImplicitOAuthFlow_validate(f)
        /\ UNCHANGED <<state, history>>

ValidatePasswordFlow ==
    \E f \in PasswordOAuthFlows :
        /\ op = "idle"
        /\ op' = "PasswordOAuthFlow::validate"
        /\ arg' = f
        /\ res' \in PasswordOAuthFlow_validate(f)
        /\ UNCHANGED <<state, history>>

ValidateOAuth2Scheme ==
    \E o \in OAuth2Schemes :
        /\ op = "idle"
        /\ op' = "OAuth2SecurityScheme::validate"
        /\ arg' = o
        /\ res' = OAuth2SecurityScheme_validate(o)
        /\ UNCHANGED <<state, history>>

ValidateOpenIdConnectScheme ==
    \E s \in OpenIdConnectSchemes :
        /\ op = "idle"
        /\ op' = "OpenIdConnectSecurityScheme::validate"
        /\ arg' = s
        /\ res' = OpenIdConnectSecurityScheme_validate(s)
        /\ UNCHANGED <<state, history>>

MessageRoundTrip ==
    \E m \in MessageInputs :
        /\ op = "idle"
        /\ op' = "Message::round_trip"
        /\ arg' = m
        /\ res' = Message_deserialize(Message_serialize(m))
        /\ UNCHANGED <<state, history>>

FileContentDecode ==
    \E v \in FileWires :
        /\ op = "idle"
        /\ op' = "FileContent::deserialize"
        /\ arg' = v
        /\ res' = FileContent_deserialize(v)
        /\ UNCHANGED <<state, history>>

NewSendMessageRequest ==
    \E id \in RequestIds, text \in MessageTexts, role \in MessageRole,
       configuration \in MessageSendConfigurations, metadata \in MetadataValues :
        /\ op = "idle"
        /\ op' = "SendMessageRequest::new"
        /\ arg' = [id |-> id, message_id |-> "msg-1", text |-> text, role |-> role,
                   configuration |-> configuration, metadata |-> metadata]
        /\ res' = SendMessageRequest_new(id, "msg-1", text, role, configuration, metadata)
        /\ UNCHANGED <<state, history>>

NewGetTaskRequest ==
    \E id \in RequestIds, task_id \in RequestTaskIds :
        /\ op = "idle"
        /\ op' = "GetTaskRequest::new"
        /\ arg' = [id |-> id, task_id |-> task_id]
        /\ res' = GetTaskRequest_new(id, task_id)
        /\ UNCHANGED <<state, history>>

NewCancelTaskRequest ==
    \E id \in RequestIds, task_id \in RequestTaskIds :
        /\ op = "idle"
        /\ op' = "CancelTaskRequest::new"
        /\ arg' = [id |-> id, task_id |-> task_id]
        /\ res' = CancelTaskRequest_new(id, task_id)
        /\ UNCHANGED <<state, history>>

ValidateExtensionParams ==
    \E e \in ParamsExtensions :
        /\ op = "idle"
        /\ op' = "AgentExtension::validate_params"
        /\ arg' = e
        /\ res' = AgentExtension_validate_params(e)
        /\ UNCHANGED <<state, history>>

ParseRequest ==
    \E json \in {"null", "true", "7", "\"detail\"", "[]", " {} ",
                 "", "{", "nul", "{\"code\":}", "[1,]", "'a'", "{} {}", "{\"a\" 1}"} :
        /\ op = "idle"
        /\ op' = "helpers::parse_request"
        /\ arg' = json
        /\ res' = parse_request(json)
        /\ UNCHANGED <<state, history>>

SerializeResponse ==
    \E response \in {JNull, JInt(7), JStr("detail"), [t |-> "map", key |-> "string"],
                     [t |-> "map", key |-> "tuple"], [t |-> "map", key |-> "unit"]} :
        /\ op = "idle"
        /\ op' = "helpers::serialize_response"
        /\ arg' = response
        /\ res' = serialize_response(response)
        /\ UNCHANGED <<state, history>>

MethodFromStr ==
    \E s \in CanonicalMethods \cup LegacyMethods \cup OtherMethods :
        /\ op = "idle"
        /\ op' = "RequestMethod::FromStr"
        /\ arg' = s
        /\ res' = RequestMethod_FromStr(s)
        /\ UNCHANGED <<state, history>>

\* Decode a scheme from the wire and, when that succeeds, validate it and
\* ask for its type.
SecuritySchemeDecode ==
    LET url == <<"h", "t", "t", "p", "s", ":", "/", "/", "a", "u", "t", "h", ".", "e", "x", "a", "m", "p", "l", "e", ".", "c", "o", "m", "/", ".", "w", "e", "l", "l", "-", "k", "n", "o", "w", "n", "/", "o", "p", "e", "n", "i", "d", "-", "c", "o", "n", "f", "i", "g", "u", "r", "a", "t", "i", "o", "n">>
        scopes == [t |-> "object", entries |-> {Scope(<<"r", "e", "a", "d">>, <<"R", "e", "a", "d", " ", "a", "c", "c", "e", "s", "s">>)}]
        flow(a, k) == [t |-> "object", authorizationUrl |-> a, tokenUrl |-> k,
                       refreshUrl |-> None, scopes |-> Some(scopes)]
        flows(i, p, c, a) == [t |-> "object", implicit |-> i, password |-> p,
                              clientCredentials |-> c, authorizationCode |-> a]
        Types == {None, Some(JInt(1)), Some(JStr("apiKey")), Some(JStr("http")),
                  Some(JStr("oauth2")), Some(JStr("openIdConnect"))}
        Shapes ==
            {<<None, None, None, None, None, None>>,
             <<Some(JText(<<"h", "e", "a", "d", "e", "r">>)), Some(JText(<<"X", "-", "A", "P", "I", "-", "K", "e", "y">>)), None, None, None, None>>,
             <<Some(JText(<<"b", "o", "d", "y">>)), Some(JText(<<"X", "-", "A", "P", "I", "-", "K", "e", "y">>)), Some(JText(<<"b", "a", "s", "i", "c">>)), None,
               None, None>>,
             <<Some(JText(<<"q", "u", "e", "r", "y">>)), Some(JText(<<"a", "p", "i", "_", "k", "e", "y">>)), Some(JText(<<"b", "e", "a", "r", "e", "r">>)),
               Some(JText(<<"J", "W", "T">>)), None, Some(JText(url))>>,
             <<None, None, Some(JText(<<"b", "e", "a", "r", "e", "r">>)), Some(JText(<<"J", "W", "T">>)), None, None>>,
             <<None, None, Some(JText(<<"b", "a", "s", "i", "c">>)), Some(JInt(1)), None, Some(JText(url))>>,
             <<None, None, None, None,
               Some(flows(None, None, Some(flow(None, Some(JText(url)))), None)), None>>,
             <<None, None, None, None,
               Some(flows(Some(flow(None, Some(JText(url)))), None, None, None)),
               Some(JText(url))>>,
             <<None, None, None, None, Some(flows(None, None, None, None)), None>>,
             <<None, None, None, None, Some(JInt(1)), None>>,
             <<None, None, None, None, None, Some(JText(url))>>}
    IN  \E type \in Types, f \in Shapes, description \in {None, Some(JNull)} :
            /\ op = "idle"
            /\ op' = "SecurityScheme::deserialize"
            /\ arg' = JScheme(type, f[1], f[2], f[3], f[4], f[5], f[6], description)
            /\ res' = LET d == SecurityScheme_deserialize(arg')
                      IN  IF d.ok
                          THEN [ok |-> TRUE, err |-> "", val |-> d.val,
                                valid |-> SecurityScheme_validate(d.val),
                                scheme_type |-> scheme_type(d.val)]
                          ELSE d
            /\ UNCHANGED <<state, history>>

\* The caller drops the result and is ready for the next call.
Return ==
    /\ op # "idle"
    /\ op' = "idle"
    /\ arg' = <<>>
    /\ res' = Ok
    /\ UNCHANGED <<state, history>>

Next ==
    \/ Return
    \/ Transition
    \/ ValidateUrl
    \/ ValidateIds
    \/ ValidateStatusEvent
    \/ ValidateArtifactEvent
    \/ ErrorRoundTrip
    \/ ErrorDecode
    \/ MethodDecode
    \/ ValidateExtension
    \/ ValidateApiKeyScheme
    \/ ValidateHttpScheme
    \/ ValidateAuthorizationCodeFlow
    \/ ValidateClientCredentialsFlow
    \/ ValidateImplicitFlow
    \/ ValidatePasswordFlow
    \/ ValidateOAuth2Scheme
    \/ ValidateOpenIdConnectScheme
    \/ MessageRoundTrip
    \/ FileContentDecode
    \/ NewSendMessageRequest
    \/ NewGetTaskRequest
    \/ NewCancelTaskRequest
    \/ ValidateExtensionParams
    \/ ParseRequest
    \/ SerializeResponse
    \/ MethodFromStr
    \/ SecuritySchemeDecode

Spec == Init /\ [][Next]_vars

\* ------------------------------------------------------------------------
\* The life of one task: its state changes only through transitions that
\* validate_task_state_transition accepts, and the states it has been in
\* are recorded.
\* ------------------------------------------------------------------------
InitTask ==
    /\ state \in TaskState
    /\ op = "idle"
    /\ arg = <<>>
    /\ res = Ok
    /\ history = <<state>>

TaskTransition ==
    \E to \in TaskState :
        /\ op = "idle"
        /\ Len(history) < MaxHistory
        /\ op' = "validate_task_state_transition"
        /\ arg' = [from |-> state, to |-> to]
        /\ res' = validate_task_state_transition(state, to)
        /\ state' = IF res'.ok THEN to ELSE state
        /\ history' = IF res'.ok THEN Append(history, to) ELSE history

NextTask ==
    \/ Return
    \/ TaskTransition

SpecTask == InitTask /\ [][NextTask]_vars

\* ------------------------------------------------------------------------
\* Properties
\* ------------------------------------------------------------------------
TerminalStates == {"Completed", "Failed", "Canceled", "Rejected"}

\* The transition table as the specification lists it
ListedTargets(from) ==
    CASE from = "Submitted" -> {"Working", "Rejected", "Canceled", "AuthRequired"}
      [] from = "Working" -> {"Completed", "Failed", "Canceled", "InputRequired"}
      [] from = "InputRequired" -> {"Working", "Canceled", "Failed"}
      [] from = "AuthRequired" -> {"Working", "Rejected", "Canceled"}
      [] from = "Unknown" -> TaskState \ {"Unknown"}
      [] OTHER -> {}

\* C1: validate_task_state_transition(from, to) returns Ok exactly when `to`
\* is listed for `from` in the transition table, and Err otherwise.
C1_TransitionTable ==
    op = "validate_task_state_transition" =>
        (res.ok <=> arg.to \in ListedTargets(arg.from))

C1_Witness ==
    /\ op = "validate_task_state_transition"
    /\ arg = [from |-> "Submitted", to |-> "Working"]
    /\ res.ok
    /\ state = "Working"

\* C2: terminal states are absorbing: once the task state is Completed,
\* Failed, Canceled or Rejected, no step changes it.
C2_TerminalAbsorbing == [][(state \in TerminalStates) => (state' = state)]_vars

C2_Witness ==
    /\ op = "validate_task_state_transition"
    /\ arg.from \in TerminalStates
    /\ arg.to = "Working"
    /\ ~res.ok
    /\ state = arg.from

\* C3: a status-update event with the right kind, a valid task id and a
\* non-empty context id validates iff it is not final or its state is
\* terminal.
C3_FinalNeedsTerminal ==
    (/\ op = "TaskStatusUpdateEvent::validate"
     /\ arg.kind = "status-update"
     /\ validate_task_id(arg.task_id).ok
     /\ arg.context_id # <<>>)
        => /\ res.ok <=> (~arg.final_event \/ arg.status.state \in TerminalStates)
           /\ (arg.final_event /\ arg.status.state = "Working") => ~res.ok
           /\ (arg.final_event /\ arg.status.state = "Completed") => res.ok

C3_Witness ==
    /\ op = "TaskStatusUpdateEvent::validate"
    /\ arg.kind = "status-update"
    /\ validate_task_id(arg.task_id).ok
    /\ arg.context_id # <<>>
    /\ arg.final_event
    /\ arg.status.state = "Working"
    /\ ~res.ok

\* C4: an otherwise valid artifact-update event fails validation iff append
\* and last_chunk are both present and true.
C4_AppendLastChunk ==
    (/\ op = "TaskArtifactUpdateEvent::validate"
     /\ arg.kind = "artifact-update"
     /\ validate_task_id(arg.task_id).ok
     /\ arg.context_id # <<>>
     /\ arg.artifact.parts # <<>>)
        => (~res.ok <=> (arg.append = Some(TRUE) /\ arg.last_chunk = Some(TRUE)))

C4_Witness ==
    /\ op = "TaskArtifactUpdateEvent::validate"
    /\ arg.kind = "artifact-update"
    /\ validate_task_id(arg.task_id).ok
    /\ arg.context_id # <<>>
    /\ arg.artifact.parts # <<>>
    /\ arg.append = Some(TRUE)
    /\ arg.last_chunk = Some(TRUE)
    /\ ~res.ok

\* The fixed code of each kind as the specification lists them
FixedCodeOf(kind) ==
    CASE kind = "JSONParse" -> -32700
      [] kind = "InvalidRequest" -> -32600
      [] kind = "MethodNotFound" -> -32601
      [] kind = "InvalidParams" -> -32602
      [] kind = "Internal" -> -32603
      [] kind = "TaskNotFound" -> -32001
      [] kind = "TaskNotCancelable" -> -32002
      [] kind = "PushNotificationNotSupported" -> -32003
      [] kind = "UnsupportedOperation" -> -32004
      [] kind = "ContentTypeNotSupported" -> -32005
      [] kind = "InvalidAgentResponse" -> -32006

\* C5: encoding an error of kind K that carries K's fixed code and decoding
\* the result yields an error of the same kind with the same code, message
\* and data.
C5_ErrorRoundTrip ==
    (op = "A2AError::round_trip" /\ arg.code = FixedCodeOf(arg.kind))
        => (res.ok /\ res.val = arg)

\* C6: decoding an A2AError fails whenever the code field is absent, is not
\* an integer, or is an integer other than the eleven fixed codes.
C6_UnknownCodeRejected ==
    (/\ op = "A2AError::deserialize"
     /\ \/ arg.t # "object"
        \/ arg.code = None
        \/ arg.code[1].t # "int"
        \/ arg.code[1].n \notin FixedCodes)
        => ~res.ok

C6_Witness ==
    /\ op = "A2AError::deserialize"
    /\ arg.t = "object"
    /\ arg.code = Some(JInt(-32000))
    /\ arg.message = Some(JStr("Task not found"))
    /\ ~res.ok

\* C7: for every error value e, whatever its field contents,
\* decode(encode(e)) succeeds and has the same kind as e.
C7_KindPreserved ==
    op = "A2AError::round_trip" => (res.ok /\ res.val.kind = arg.kind)

\* C8: every accepted method string re-encodes to the canonical string of
\* its method (canonical strings unchanged, aliases normalised), encoding
\* never produces an alias, and every other string is rejected.
C8_MethodNormalised ==
    (op = "RequestMethod::deserialize" /\ arg.t = "string")
        => /\ arg.s \in CanonicalMethods => (res.ok /\ res.encoded = arg.s)
           /\ arg.s = "sendMessage" => (res.ok /\ res.encoded = "message/send")
           /\ arg.s = "getTask" => (res.ok /\ res.encoded = "tasks/get")
           /\ arg.s = "cancelTask" => (res.ok /\ res.encoded = "tasks/cancel")
           /\ res.ok => (res.encoded \in CanonicalMethods /\ res.encoded = res.str)
           /\ arg.s \notin CanonicalMethods \cup LegacyMethods => ~res.ok

C8_Witness ==
    /\ op = "RequestMethod::deserialize"
    /\ arg = JStr("sendMessage")
    /\ res.ok
    /\ res.val = "MessageSend"
    /\ res.encoded = "message/send"

NoDot(s) == \A i \in 1..Len(s) : s[i] # "."

OnlyIdChars(s) == \A i \in 1..Len(s) : s[i] \in {"a", "é", "-", "_"}

\* C10 as stated: for every string s without '.', validate_skill_id(s)
\* succeeds exactly when validate_task_id(s) succeeds (non-empty, at most
\* 255 long, only alphanumerics, hyphen, underscore).
C10_SameRuleAsTaskId ==
    (op = "validate_id" /\ NoDot(arg))
        => /\ res.skill_id.ok <=> res.task_id.ok
           /\ res.skill_id.ok <=> (Len(arg) > 0 /\ ByteLen(arg) <= 255 /\ OnlyIdChars(arg))

\* C10 amended: the skill-id limit is 100, not 255: for every string s
\* without '.', validate_skill_id(s) succeeds exactly when validate_task_id(s)
\* succeeds and s is at most 100 long.
C10_SameRuleUpTo100 ==
    (op = "validate_id" /\ NoDot(arg))
        => /\ res.skill_id.ok <=> (res.task_id.ok /\ ByteLen(arg) <= 100)
           /\ res.skill_id.ok <=> (Len(arg) > 0 /\ ByteLen(arg) <= 100 /\ OnlyIdChars(arg))

C10_Witness ==
    /\ op = "validate_id"
    /\ arg = Repeat("a", 101)
    /\ res.task_id.ok
    /\ ~res.skill_id.ok

\* C11: AgentExtension::validate() succeeds only if the extension URI passes
\* URL validation: if validate_url(uri) fails, validate() fails.
C11_ExtensionUriIsUrl ==
    op = "AgentExtension::validate" => (res.ok => validate_url(arg.uri).ok)

\* The name is rejected for its location: Header rejects a space and
\* "authorization" in any letter case, Query rejects a space, '&' and '=',
\* Cookie rejects a space, ';' and '='.
BadNameFor(in_, name) ==
    \/ in_ = "Header" /\ (contains_char(name, " ") \/ to_lowercase(name) = <<"a", "u", "t", "h", "o", "r", "i", "z", "a", "t", "i", "o", "n">>)
    \/ in_ = "Query" /\ (contains_char(name, " ") \/ contains_char(name, "&")
                         \/ contains_char(name, "="))
    \/ in_ = "Cookie" /\ (contains_char(name, " ") \/ contains_char(name, ";")
                          \/ contains_char(name, "="))

C13_HttpSchemeRule ==
    (op = "HttpSecurityScheme::validate" /\ res.ok) =>
        /\ \/ to_lowercase(arg.scheme) \in
                {<<"b", "a", "s", "i", "c">>, <<"b", "e", "a", "r", "e", "r">>, <<"d", "i", "g", "e", "s", "t">>, <<"n", "e", "g", "o", "t", "i", "a", "t", "e">>, <<"n", "t", "l", "m">>}
           \/ starts_with(to_lowercase(arg.scheme), <<"x", "-">>)
        /\ arg.bearer_format # None =>
              (to_lowercase(arg.scheme) = <<"b", "e", "a", "r", "e", "r">> /\ arg.bearer_format[1] # <<>>)

C13_Witness ==
    /\ op = "HttpSecurityScheme::validate"
    /\ arg.scheme = <<"B", "e", "a", "r", "e", "r">>
    /\ arg.bearer_format = Some(<<"J", "W", "T">>)
    /\ res.ok

\* Every result the flow's own validator can return is a success.
FlowPasses(results) == \A r \in results : r.ok

FlowRule(urls, scopes) ==
    /\ \A u \in urls : validate_url(u).ok
    /\ scopes # {}
    /\ \A sc \in scopes : sc.name # <<>> /\ ~contains_char(sc.name, " ") /\ sc.desc # <<>>

\* The refresh URL, when present
PresentUrl(o) == IF o = None THEN {} ELSE {o[1]}

\* C15: each of the four OAuth2 flow validators succeeds exactly when the
\* flow's required URLs and its refresh URL, if present, pass validate_url,
\* the scope map is not empty, and every scope has a non-empty name without a
\* space and a non-empty description.
C15_FlowRule ==
    /\ op = "ImplicitOAuthFlow::validate" =>
           (res.ok <=> FlowRule({arg.authorization_url} \cup PresentUrl(arg.refresh_url),
                                arg.scopes))
    /\ op = "PasswordOAuthFlow::validate" =>
           (res.ok <=> FlowRule({arg.token_url} \cup PresentUrl(arg.refresh_url), arg.scopes))
    /\ op = "ClientCredentialsOAuthFlow::validate" =>
           (res.ok <=> FlowRule({arg.token_url} \cup PresentUrl(arg.refresh_url), arg.scopes))
    /\ op = "AuthorizationCodeOAuthFlow::validate" =>
           (res.ok <=> FlowRule({arg.authorization_url, arg.token_url}
                                    \cup PresentUrl(arg.refresh_url), arg.scopes))

C15_Witness ==
    /\ op = "PasswordOAuthFlow::validate"
    /\ validate_url(arg.token_url).ok
    /\ arg.refresh_url # None
    /\ validate_url(arg.refresh_url[1]).ok
    /\ \E sc \in arg.scopes : contains_char(sc.name, " ") /\ sc.desc # <<>>
    /\ ~res.ok

HasWellKnownPath(url) ==
    \/ contains_str(url, <<"/", ".", "w", "e", "l", "l", "-", "k", "n", "o", "w", "n", "/", "o", "p", "e", "n", "i", "d", "-", "c", "o", "n", "f", "i", "g", "u", "r", "a", "t", "i", "o", "n">>)
    \/ contains_str(url, <<"/", ".", "w", "e", "l", "l", "-", "k", "n", "o", "w", "n", "/", "o", "p", "e", "n", "i", "d", "_", "c", "o", "n", "f", "i", "g", "u", "r", "a", "t", "i", "o", "n">>)

\* C16: OpenIdConnectSecurityScheme::validate() succeeds only if the discovery
\* URL starts with https:// and contains "/.well-known/openid-configuration"
\* or "/.well-known/openid_configuration"; a URL that passes validate_url with
\* http://, or that lacks the well-known path, is rejected.
C16_OpenIdConnectRule ==
    op = "OpenIdConnectSecurityScheme::validate" =>
        /\ res.ok => (/\ starts_with(arg.open_id_connect_url, <<"h", "t", "t", "p", "s", ":", "/", "/">>)
                      /\ HasWellKnownPath(arg.open_id_connect_url))
        /\ (/\ validate_url(arg.open_id_connect_url).ok
            /\ starts_with(arg.open_id_connect_url, <<"h", "t", "t", "p", ":", "/", "/">>)) => ~res.ok
        /\ ~HasWellKnownPath(arg.open_id_connect_url) => ~res.ok

C16_Witness ==
    /\ op = "OpenIdConnectSecurityScheme::validate"
    /\ arg.type_ = "openIdConnect"
    /\ arg.description = None
    /\ validate_url(arg.open_id_connect_url).ok
    /\ starts_with(arg.open_id_connect_url, <<"h", "t", "t", "p", ":", "/", "/">>)
    /\ HasWellKnownPath(arg.open_id_connect_url)
    /\ ~res.ok

\* C17: decoding the encoding of a Message yields the same Message field for
\* field, every optional field included: a metadata value that is present
\* stays present with the same JSON value.
C17_MessageRoundTrip ==
    op = "Message::round_trip" => (res.ok /\ res.val = arg)

\* C18 as stated: the variant is selected by which required field is present.
\* A JSON object with bytes decodes as WithBytes, an object with uri and no
\* bytes decodes as WithUri, an object with neither fails, and a decoded
\* value has exactly one of bytes and uri.
C18_SelectedByPresence ==
    (op = "FileContent::deserialize" /\ arg.t = "object") =>
        /\ arg.bytes # None => (res.ok /\ res.val.variant = "WithBytes")
        /\ (arg.bytes = None /\ arg.uri # None) => (res.ok /\ res.val.variant = "WithUri")
        /\ (arg.bytes = None /\ arg.uri = None) => ~res.ok
        /\ res.ok => (("bytes" \in DOMAIN res.val) # ("uri" \in DOMAIN res.val))

\* The optional field is absent, null or a string
OptionalStringField(f) == f = None \/ f[1].t \in {"null", "string"}

\* The object decodes as the record whose required field is `field`
MatchesVariant(v, field) ==
    /\ field # None
    /\ field[1].t = "string"
    /\ OptionalStringField(v.name)
    /\ OptionalStringField(v.mimeType)

\* C18: the inline-bytes variant is tried first and the URI variant second,
\* and a variant is selected when the object decodes as it: an object whose
\* bytes is a string (name and mimeType absent, null or strings) decodes as
\* WithBytes; otherwise an object whose uri is a string decodes as WithUri,
\* also when an ill-typed bytes is present; every other object fails; and a
\* decoded value has exactly one of bytes and uri.
C18_SelectedByDecoding ==
    (op = "FileContent::deserialize" /\ arg.t = "object") =>
        /\ MatchesVariant(arg, arg.bytes) =>
               (res.ok /\ res.val.variant = "WithBytes" /\ res.val.bytes = arg.bytes[1].s)
        /\ (~MatchesVariant(arg, arg.bytes) /\ MatchesVariant(arg, arg.uri)) =>
               (res.ok /\ res.val.variant = "WithUri" /\ res.val.uri = arg.uri[1].s)
        /\ (~MatchesVariant(arg, arg.bytes) /\ ~MatchesVariant(arg, arg.uri)) => ~res.ok
        /\ res.ok => (("bytes" \in DOMAIN res.val) # ("uri" \in DOMAIN res.val))

C18_Witness ==
    /\ op = "FileContent::deserialize"
    /\ arg.t = "object"
    /\ arg.bytes = Some(JInt(1))
    /\ arg.uri # None
    /\ res.ok
    /\ res.val.variant = "WithUri"

\* The calls that validate a value
ValidatorOps ==
    {"validate_task_state_transition", "validate_url", "validate_id",
     "TaskStatusUpdateEvent::validate", "TaskArtifactUpdateEvent::validate",
     "AgentExtension::validate", "ApiKeySecurityScheme::validate",
     "HttpSecurityScheme::validate", "OAuth2SecurityScheme::validate",
     "OpenIdConnectSecurityScheme::validate", "AuthorizationCodeOAuthFlow::validate",
     "ClientCredentialsOAuthFlow::validate", "ImplicitOAuthFlow::validate",
     "PasswordOAuthFlow::validate"}

\* The results a further call of validator o on the value a can return
AgainOn(o, a) ==
    CASE o = "validate_task_state_transition" -> {validate_task_state_transition(a.from, a.to)}
      [] o = "validate_url" -> {validate_url(a)}
      [] o = "validate_id" ->
            {[task_id |-> validate_task_id(a), skill_id |-> validate_skill_id(a)]}
      [] o = "TaskStatusUpdateEvent::validate" -> {TaskStatusUpdateEvent_validate(a)}
      [] o = "TaskArtifactUpdateEvent::validate" -> {TaskArtifactUpdateEvent_validate(a)}
      [] o = "AgentExtension::validate" -> {AgentExtension_validate(a)}
      [] o = "ApiKeySecurityScheme::validate" -> {ApiKeySecurityScheme_validate(a)}
      [] o = "HttpSecurityScheme::validate" -> {HttpSecurityScheme_validate(a)}
      [] o = "OAuth2SecurityScheme::validate" -> {OAuth2SecurityScheme_validate(a)}
      [] o = "OpenIdConnectSecurityScheme::validate" ->
            {OpenIdConnectSecurityScheme_validate(a)}
      [] o = "AuthorizationCodeOAuthFlow::validate" -> AuthorizationCodeOAuthFlow_validate(a)
      [] o = "ClientCredentialsOAuthFlow::validate" -> ClientCredentialsOAuthFlow_validate(a)
      [] o = "ImplicitOAuthFlow::validate" -> ImplicitOAuthFlow_validate(a)
      [] o = "PasswordOAuthFlow::validate" -> PasswordOAuthFlow_validate(a)

SameOutcome(r, q) ==
    IF "ok" \in DOMAIN r THEN r.ok = q.ok
    ELSE r.task_id.ok = q.task_id.ok /\ r.skill_id.ok = q.skill_id.ok

C20_Constructors ==
    /\ op \in {"SendMessageRequest::new", "GetTaskRequest::new", "CancelTaskRequest::new"} =>
           (res.jsonrpc = "2.0" /\ res.id = arg.id)
    /\ op = "SendMessageRequest::new" =>
           /\ RequestMethod_serialize(res.method) = "message/send"
           /\ res.params.message.kind = "message"
           /\ Len(res.params.message.parts) = 1
           /\ res.params.message.parts[1].variant = "Text"
           /\ res.params.message.parts[1].text = arg.text
           /\ res.params.message.role = arg.role
    /\ op = "GetTaskRequest::new" =>
           (RequestMethod_serialize(res.method) = "tasks/get"
            /\ res.params.task_id = arg.task_id)
    /\ op = "CancelTaskRequest::new" =>
           (RequestMethod_serialize(res.method) = "tasks/cancel"
            /\ res.params.task_id = arg.task_id)

C20_Witness ==
    /\ op = "CancelTaskRequest::new"
    /\ arg = [id |-> "req-1", task_id |-> "task-1"]
    /\ res.id = "req-1"
    /\ res.params.task_id = "task-1"

\* The value is a string that starts with http:// or https://
IsHttpString(v) ==
    v.t = "string" /\ (starts_with(v.chars, <<"h", "t", "t", "p", ":", "/", "/">>) \/ starts_with(v.chars, <<"h", "t", "t", "p", "s", ":", "/", "/">>))

\* The auth schema: clientId a non-empty string, scopes an array, redirectUri
\* an http(s) string, each when present
AuthSchema(obj) ==
    /\ obj.clientId # None => (obj.clientId[1].t = "string" /\ obj.clientId[1].chars # <<>>)
    /\ obj.scopes # None => obj.scopes[1].t = "array"
    /\ obj.redirectUri # None => IsHttpString(obj.redirectUri[1])

\* The webhook schema: url a non-empty http(s) string, secret a string,
\* events an array, each when present
WebhookSchema(obj) ==
    /\ obj.url # None => (IsHttpString(obj.url[1]) /\ obj.url[1].chars # <<>>)
    /\ obj.secret # None => obj.secret[1].t = "string"
    /\ obj.events # None => obj.events[1].t = "array"

\* C21: AgentExtension::validate_params() accepts absent params, rejects
\* params that are not a JSON object, and checks an object against at most
\* one schema: the auth schema when the URI contains "auth", otherwise the
\* webhook schema when the URI contains "webhook" or "notification"; a URI
\* matching both gets only the auth schema, a URI matching neither accepts
\* any object.
C21_ParamsSchema ==
    op = "AgentExtension::validate_params" =>
        LET isAuth == contains_str(arg.uri, <<"a", "u", "t", "h">>)
            isWebhook == contains_str(arg.uri, <<"w", "e", "b", "h", "o", "o", "k">>)
                         \/ contains_str(arg.uri, <<"n", "o", "t", "i", "f", "i", "c", "a", "t", "i", "o", "n">>)
        IN /\ arg.params = None => res.ok
           /\ (arg.params # None /\ arg.params[1].t # "object") => ~res.ok
           /\ (arg.params # None /\ arg.params[1].t = "object") =>
                  /\ isAuth => (res.ok <=> AuthSchema(arg.params[1]))
                  /\ (~isAuth /\ isWebhook) => (res.ok <=> WebhookSchema(arg.params[1]))
                  /\ (~isAuth /\ ~isWebhook) => res.ok

C21_Witness ==
    /\ op = "AgentExtension::validate_params"
    /\ contains_str(arg.uri, <<"a", "u", "t", "h">>)
    /\ contains_str(arg.uri, <<"w", "e", "b", "h", "o", "o", "k">>)
    /\ arg.params # None
    /\ arg.params[1].t = "object"
    /\ ~WebhookSchema(arg.params[1])
    /\ res.ok

\* C22: Unknown is never a valid target: validate_task_state_transition(s,
\* Unknown) fails for every state s, Unknown included, so a task that does
\* not start in Unknown and changes state only through validated transitions
\* is never in Unknown.
C22_UnknownNeverTarget ==
    /\ \A s \in TaskState : ~validate_task_state_transition(s, "Unknown").ok
    /\ (op = "validate_task_state_transition" /\ arg.to = "Unknown") => ~res.ok
    /\ history[1] # "Unknown" => \A i \in 1..Len(history) : history[i] # "Unknown"

C22_Witness ==
    /\ op = "validate_task_state_transition"
    /\ arg = [from |-> "Unknown", to |-> "Unknown"]
    /\ ~res.ok
    /\ history = <<"Unknown">>

\* The i-th recorded state is preceded by a recorded state in S
Before(i, S) == \E j \in 1..(i - 1) : history[j] \in S

\* C23: in every sequence of validated transitions that starts in Submitted,
\* the task has been in Working before it is in Completed, Failed or
\* InputRequired.
C23_WorkingFirst ==
    history[1] = "Submitted" =>
        \A i \in 1..Len(history) :
            history[i] \in {"Completed", "Failed", "InputRequired"} => Before(i, {"Working"})

C23_Witness ==
    /\ history[1] = "Submitted"
    /\ Len(history) >= 4
    /\ history[2] = "AuthRequired"
    /\ state = "Completed"
    /\ Before(Len(history), {"Working"})

\* C24: once a task has been in Working, no sequence of validated
\* transitions takes it to Submitted, AuthRequired or Rejected.
C24_NoWayBack ==
    \A i \in 1..Len(history) :
        Before(i, {"Working"}) => history[i] \notin {"Submitted", "AuthRequired", "Rejected"}

C24_Witness ==
    /\ Before(Len(history), {"Working"})
    /\ Before(Len(history), {"InputRequired"})
    /\ state = "Canceled"
    /\ op = "idle"

\* The targets validate_task_state_transition accepts from a state of S
Successors(S) ==
    {t \in TaskState : \E s \in S : validate_task_state_transition(s, t).ok}

\* The states reached from S by one or more validated transitions
ReachableFrom(S) ==
    LET R[n \in 0..Cardinality(TaskState)] ==
            IF n = 0 THEN Successors(S)
            ELSE LET prev == R[n - 1] IN prev \cup Successors(prev)
    IN  R[Cardinality(TaskState)]

\* C25: from each of Submitted, Working, InputRequired, AuthRequired and
\* Unknown a sequence of validated transitions ends in a terminal state.
C25_NoDeadEnd ==
    /\ \A s \in {"Submitted", "Working", "InputRequired", "AuthRequired", "Unknown"} :
           ReachableFrom({s}) \cap {"Completed", "Failed", "Canceled", "Rejected"} # {}
    /\ state \notin {"Completed", "Failed", "Canceled", "Rejected"} =>
           ReachableFrom({state}) \cap {"Completed", "Failed", "Canceled", "Rejected"} # {}

C25_Witness ==
    /\ history[1] = "AuthRequired"
    /\ Len(history) >= 3
    /\ state \in {"Completed", "Failed", "Canceled", "Rejected"}
    /\ op = "idle"

\* C26: the only cycle of the transition table is Working <-> InputRequired:
\* in every sequence of validated transitions a state other than Working and
\* InputRequired occurs at most once, and no such state can be reached from
\* itself, while Working and InputRequired can.
C26_OnlyCycle ==
    /\ \A i, j \in 1..Len(history) :
           (i < j /\ history[i] = history[j]) => history[i] \in {"Working", "InputRequired"}
    /\ \A s \in TaskState :
           s \in ReachableFrom({s}) <=> s \in {"Working", "InputRequired"}

C26_Witness ==
    /\ \E i, j \in 1..Len(history) : i < j /\ history[i] = "Working" /\ history[j] = "Working"
    /\ Len(history) = MaxHistory
    /\ \A i \in 3..Len(history) : history[i] \in {"Working", "InputRequired"}

\* C27: the definitions of terminal agree. For the state of a status event,
\* being accepted for a final event, is_terminal_state() and having no
\* accepted outgoing transition are equivalent and hold exactly for
\* Completed, Failed, Canceled and Rejected; so the state of an event
\* accepted as final has no validated change.
C27_TerminalAgree ==
    op = "TaskStatusUpdateEvent::validate" =>
        LET s == arg.status.state
            acceptedAsFinal == TaskStatusUpdateEvent_validate([arg EXCEPT !.final_event = TRUE]).ok
            wellFormed == TaskStatusUpdateEvent_validate([arg EXCEPT !.final_event = FALSE]).ok
            noWayOut == \A t \in TaskState : ~validate_task_state_transition(s, t).ok
        IN /\ is_terminal_state(arg) <=> s \in {"Completed", "Failed", "Canceled", "Rejected"}
           /\ is_terminal_state(arg) <=> noWayOut
           /\ wellFormed => (acceptedAsFinal <=> is_terminal_state(arg))
           /\ (arg.final_event /\ res.ok) => noWayOut

C27_Witness ==
    /\ op = "TaskStatusUpdateEvent::validate"
    /\ arg.final_event
    /\ arg.status.state = "Rejected"
    /\ res.ok
    /\ is_terminal_state(arg)

\* The error has the kind and the code given, the code is the fixed code of
\* that kind, and the error decodes from its encoding as the same kind.
CarriesFixedCode(e, kind, code) ==
    /\ e.kind = kind
    /\ e.code = code
    /\ kind_of_code(e.code) = e.kind
    /\ A2AError_deserialize(A2AError_serialize(e)).ok
    /\ A2AError_deserialize(A2AError_serialize(e)).val.kind = kind

\* C28: every A2AError the library constructs carries the fixed code of its
\* kind: parse_request gives JSONParse with -32700 on malformed JSON,
\* serialize_response gives Internal with -32603 on failure, and FromStr
\* gives MethodNotFound with -32601 for an unknown method string.
C28_ConstructedErrors ==
    /\ op = "helpers::parse_request" =>
           /\ ~res.ok => CarriesFixedCode(res.err, "JSONParse", -32700)
           /\ arg \in {"", "{", "nul", "[1,]"} => ~res.ok
    /\ op = "helpers::serialize_response" =>
           (~res.ok => CarriesFixedCode(res.err, "Internal", -32603))
    /\ op = "RequestMethod::FromStr" =>
           /\ ~res.ok => CarriesFixedCode(res.err, "MethodNotFound", -32601)
           /\ arg \notin CanonicalMethods \cup LegacyMethods => ~res.ok

C28_Witness ==
    /\ op = "helpers::parse_request"
    /\ arg = "{"
    /\ ~res.ok
    /\ res.err.code = -32700

\* C29: for a SecurityScheme that passes validate(), scheme_type() of its
\* variant equals its type field, which is the `type` of the wire object it
\* was decoded from; a scheme whose type field disagrees with the variant it
\* was decoded into does not pass validate().
C29_TypeMatchesVariant ==
    (op = "SecurityScheme::deserialize" /\ res.ok) =>
        /\ res.valid.ok => (/\ res.scheme_type = res.val.scheme.type_
                            /\ arg.type = Some(JStr(res.scheme_type)))
        /\ res.val.scheme.type_ # res.scheme_type => ~res.valid.ok

C29_Witness ==
    /\ op = "SecurityScheme::deserialize"
    /\ res.ok
    /\ arg.type = Some(JStr("http"))
    /\ res.val.variant = "ApiKey"
    /\ res.scheme_type = "apiKey"
    /\ ~res.valid.ok

\* C30: validate_url never returns "URL must contain a domain": an input
\* that starts with http:// or https:// and is at least 10 bytes long has a
\* non-empty remainder after the prefix, and the bare prefixes http:// and
\* https:// are rejected as too short.
C30_DomainErrorUnreachable ==
    op = "validate_url" =>
        /\ res.err # "URL must contain a domain"
        /\ ((starts_with(arg, HttpPrefix) \/ starts_with(arg, HttpsPrefix))
                /\ ByteLen(arg) >= MinUrlLen) => without_protocol(arg) # <<>>
        /\ arg \in {HttpPrefix, HttpsPrefix} => res.err = "URL appears to be too short"

C30_Witness ==
    /\ op = "validate_url"
    /\ arg = HttpPrefix
    /\ without_protocol(arg) = <<>>
    /\ res = Err("URL appears to be too short")

====
